---------------------------- MODULE Spec2Model ----------------------------
(***************************************************************************)
(* A model of libavstor: the page cache with eviction, commit and          *)
(* rollback, the AVL trees stored in pages, the in-order cursor, links     *)
(* and back-links, and the upgradable read/write lock.                     *)
(*                                                                         *)
(* Scaling.  A page of the library holds 4096 bytes; here a data page      *)
(* holds cfg.npp nodes (every node counts as one unit of space), a cache   *)
(* row starts with cfg.assoc items, the cache has cfg.l2_len rows and the  *)
(* file may grow to cfg.max_pages pages: cfg is fixed when the database is *)
(* opened.  Node references are file offsets exactly as in the library:    *)
(* page number times PAGE_SIZE plus the byte offset of the node's slot.    *)
(***************************************************************************)
EXTENDS Integers, Sequences, FiniteSets, TLC

\* ------------------------------------------------------------------ bounds
\* deepest key level a caller creates
MaxLevel == 2

\* ------------------------------------------------------- program constants
PAGE_SIZE == 4096
\* offsetof(AvPage, index) with 32-bit offsets
INDEX_BASE == 26
INVALID_INDEX == 0
AVSTOR_TYPE_KEY == 0
AVSTOR_TYPE_INT32 == 1
AVSTOR_TYPE_LINK == 8
AVSTOR_AVL_HEIGHT == 64

NoPage == [nopage |-> TRUE]

\* ------------------------------------------------------------ page layout
\* byte offset, in its page, of the slot with number s (1-based)
SlotOfs(s) == INDEX_BASE + 2 * (s - 1)
SlotNum(index) == ((index - INDEX_BASE) \div 2) + 1
PageOf(ofs) == ofs - (ofs % PAGE_SIZE)
IndexOf(ofs) == ofs % PAGE_SIZE

FreeSlot(next) == [free |-> TRUE, next |-> next]
IsNode(e) == "type" \in DOMAIN e

\* a frame as memset(page, 0, PAGE_SIZE) leaves it
ZeroPage == [page_offset |-> 0, dirty |-> FALSE, lock_count |-> 0,
             index_freelist |-> 0, slots |-> << >>]

NewHeader == [page_offset |-> 0, dirty |-> TRUE, lock_count |-> 0, pagecount |-> 1,
              root |-> 0, root_links |-> 0,
              page_pool |-> [p \in 0..(2 * MaxLevel + 1) |-> 0]]

is_page_dirty(page) == page.dirty

\* number of live nodes of a page
LiveCount(page) == Cardinality({s \in 1..Len(page.slots) : IsNode(page.slots[s])})

get_page_free_space(db, page) == db.cfg.npp - LiveCount(page)

\* --------------------------------------------------------------- file I/O
\* the file is a function from page number to the page last written there
FileLen(f) == IF \A p \in DOMAIN f : f[p] = NoPage THEN 0
              ELSE 1 + CHOOSE p \in DOMAIN f : f[p] # NoPage /\ \A q \in DOMAIN f : f[q] # NoPage => q <= p

read_page(f, page_offset) ==
    LET p == page_offset \div PAGE_SIZE IN
    IF p \notin DOMAIN f \/ p >= FileLen(f) THEN [err |-> "IOERR", page |-> ZeroPage]
    ELSE IF f[p] = NoPage THEN [err |-> "CORRUPT", page |-> ZeroPage]
    ELSE [err |-> "OK", page |-> f[p]]

\* write_page: a dirty page is cleaned, checksummed and written at its own offset
write_page(f, page) ==
    IF is_page_dirty(page)
    THEN LET clean == [page EXCEPT !.dirty = FALSE] IN
         [file |-> [f EXCEPT ![page.page_offset \div PAGE_SIZE] = clean], page |-> clean]
    ELSE [file |-> f, page |-> page]


\* ------------------------------------------------------------- page cache
\* The database as the operators below thread it: the header page, the shadow
\* header, the cache rows, the file, the AUTOSAVE flag and the pending error
\* (the exception being thrown; "OK" when none).
EmptyItem == [page |-> NoPage, offset |-> 0, load_time |-> 0]

NewRow(assoc) == [load_count |-> 1, capacity |-> assoc,
                  items |-> [c \in 1..assoc |-> EmptyItem]]

THROW(db, e) == IF db.err = "OK" THEN [db EXCEPT !.err = e] ELSE db

\* bits 3 and up of the 32-bit product, masked to the row count: they depend
\* only on the product modulo 8 * l2_len (a power of two)
cache_get_row(db, page_ofs) ==
    LET m == 8 * db.cfg.l2_len IN
    ((((page_ofs \div PAGE_SIZE) % m) * (1597334677 % m)) % m) \div 8

\* the column of the first item of the row that has no frame: the scans of a
\* row stop there; capacity + 1 when every item has one
FirstEmpty(line) ==
    LET nopage == {c \in 1..line.capacity : line.items[c].page = NoPage} IN
    IF nopage = {} THEN line.capacity + 1
    ELSE CHOOSE c \in nopage : \A d \in nopage : c <= d

ScanLine(line, page_ofs, stop) ==
    LET hits == {c \in 1..line.capacity : c < stop /\ line.items[c].offset # 0
                                          /\ line.items[c].offset = page_ofs}
        avail == {c \in 1..line.capacity : c < stop /\ line.items[c].offset = 0}
    IN  IF hits # {}
        THEN [item |-> CHOOSE c \in hits : \A d \in hits : c <= d, out |-> 0]
        ELSE IF stop <= line.capacity THEN [item |-> 0, out |-> stop]
        ELSE IF avail # {}
        THEN [item |-> 0, out |-> CHOOSE c \in avail : \A d \in avail : c >= d]
        ELSE [item |-> 0, out |-> 0]

\* [item |-> column holding page_ofs or 0, out |-> column of the first empty
\*  item, else of the last available one, else 0]
cache_lookup_scan_line(line, page_ofs) == ScanLine(line, page_ofs, FirstEmpty(line))

OldestOf(line, stop) ==
    LET cand == {c \in 1..line.capacity : c < stop /\ line.items[c].offset # 0
                                          /\ line.items[c].load_time < line.load_count
                                          /\ line.items[c].page.lock_count = 0}
    IN  IF cand = {} THEN 0
        ELSE CHOOSE c \in cand : \A d \in cand :
                 \/ line.items[c].load_time < line.items[d].load_time
                 \/ (line.items[c].load_time = line.items[d].load_time /\ c <= d)

\* an eviction that does not look at the pins: the oldest mapped item
OldestPinned(line) ==
    LET cand == {c \in 1..line.capacity : c < FirstEmpty(line) /\ line.items[c].offset # 0
                                          /\ line.items[c].load_time < line.load_count}
    IN  IF cand = {} THEN 0
        ELSE CHOOSE c \in cand : \A d \in cand :
                 \/ line.items[c].load_time < line.items[d].load_time
                 \/ (line.items[c].load_time = line.items[d].load_time /\ c <= d)

\* the oldest unpinned mapped item of the row, 0 if there is none
EvictOldest(line) == OldestOf(line, FirstEmpty(line))

\* the eviction of the item at col of row r (0: there is none to evict)
EvictItem(db, r, col) ==
    IF col = 0 THEN [res |-> "evict_fail", col |-> 0, db |-> db]
    ELSE IF is_page_dirty(db.rows[r].items[col].page) /\ ~db.autosave
    THEN [res |-> "evict_must_flush", col |-> 0, db |-> db]
    ELSE LET w == write_page(db.file, db.rows[r].items[col].page) IN
         [res |-> "evict_success", col |-> col,
          db |-> [db EXCEPT !.file = w.file,
                            !.rows[r].items[col].page = w.page,
                            !.rows[r].items[col].offset = 0]]

\* [res, col, db]: res is evict_success, evict_fail or evict_must_flush
cache_evict(db, r) == EvictItem(db, r, EvictOldest(db.rows[r]))

\* the row grown by four items, the first of them with a fresh frame
cache_line_realloc(line) ==
    [line EXCEPT !.capacity = line.capacity + 4,
                 !.items = [c \in 1..(line.capacity + 4) |->
                              IF c <= line.capacity THEN line.items[c]
                              ELSE IF c = line.capacity + 1
                                   THEN [EmptyItem EXCEPT !.page = ZeroPage]
                                   ELSE EmptyItem]]

\* the page loaded into (or created in) item col of row r and pinned once
CacheFill(db, r, col, page_ofs, is_existing) ==
    IF is_existing
    THEN LET rp == read_page(db.file, page_ofs) IN
         IF rp.err # "OK" THEN THROW(db, rp.err)
         ELSE [db EXCEPT !.rows[r].items[col] =
                            [page |-> [rp.page EXCEPT !.lock_count = 1],
                             offset |-> page_ofs,
                             load_time |-> db.rows[r].load_count],
                         !.rows[r].load_count = @ + 1]
    ELSE [db EXCEPT !.rows[r].items[col] =
                       [page |-> [ZeroPage EXCEPT !.page_offset = page_ofs,
                                                  !.lock_count = 1],
                        offset |-> page_ofs, load_time |-> 0]]

\* cache_lookup when no item of row r can take the page without an eviction:
\* ev is what cache_evict made of the row
LookupEvicted(db, r, ev, page_ofs, is_existing) ==
    CASE ev.res = "evict_success" ->
             CacheFill(ev.db, r, ev.col, page_ofs, is_existing)
      [] ev.res = "evict_fail" ->
             CacheFill([db EXCEPT !.rows[r] = cache_line_realloc(db.rows[r])],
                       r, db.rows[r].capacity + 1, page_ofs, is_existing)
      [] OTHER -> THROW(db, "ABORT")

\* cache_lookup in row r, sc being the result of the scan of the row
LookupIn(db, r, sc, page_ofs, is_existing) ==
    IF sc.item # 0
    THEN [db EXCEPT !.rows[r].items[sc.item].page.lock_count = @ + 1]
    ELSE IF sc.out # 0
    THEN \* bpool_alloc_page gives the item a fresh frame
         CacheFill([db EXCEPT !.rows[r].items[sc.out].page = ZeroPage],
                   r, sc.out, page_ofs, is_existing)
    ELSE LookupEvicted(db, r, cache_evict(db, r), page_ofs, is_existing)

LookupRow(db, r, page_ofs, is_existing) ==
    LookupIn(db, r, cache_lookup_scan_line(db.rows[r], page_ofs), page_ofs, is_existing)

\* cache_lookup: the page at page_ofs resident and pinned once more, or an error
cache_lookup(db, page_ofs, is_existing) ==
    IF db.err # "OK" THEN db
    ELSE LookupRow(db, cache_get_row(db, page_ofs), page_ofs, is_existing)


\* ------------------------------------------------------------------ calls
\* TLC's statistics unfold an operator at every place it is applied and stop
\* at an operator that is being unfolded already.  The operators below call
\* one another through Run, which applies the operator named to as many of
\* its arguments as the operator takes: do_f(x) is the call f(x).
RECURSIVE Run(_, _, _, _, _, _, _)
do_Node(db, ofs) == Run("Node", db, ofs, 0, 0, 0, 0)
do_PageAt(db, pgofs) == Run("PageAt", db, pgofs, 0, 0, 0, 0)
do_ColOf(db, pgofs) == Run("ColOf", db, pgofs, 0, 0, 0, 0)
do_Resident(db, pgofs) == Run("Resident", db, pgofs, 0, 0, 0, 0)
do_PutNode(db, ofs, n) == Run("PutNode", db, ofs, n, 0, 0, 0)
do_ReadRef(db, ptr) == Run("ReadRef", db, ptr, 0, 0, 0, 0)
do_unlock_ptr(db, ofs) == Run("unlock_ptr", db, ofs, 0, 0, 0, 0)
do_unlock_page(db, pgofs) == Run("unlock_page", db, pgofs, 0, 0, 0, 0)
do_lock_page(db, pgofs) == Run("lock_page", db, pgofs, 0, 0, 0, 0)
do_AddLock(db, pgofs, d) == Run("AddLock", db, pgofs, d, 0, 0, 0)
do_set_page_dirty(db, pgofs) == Run("set_page_dirty", db, pgofs, 0, 0, 0, 0)
do_get_node(db, ofs) == Run("get_node", db, ofs, 0, 0, 0, 0)
do_get_page(db, page_offset) == Run("get_page", db, page_offset, 0, 0, 0, 0)
do_cache_lookup(db, page_ofs, is_existing) == Run("cache_lookup", db, page_ofs, is_existing, 0, 0, 0)
do_lock_node(db, noderef) == Run("lock_node", db, noderef, 0, 0, 0, 0)
do_lock_node_ex(db, holder, node_ofs) == Run("lock_node_ex", db, holder, node_ofs, 0, 0, 0)
do_assign_nref(db, src, ptr) == Run("assign_nref", db, src, ptr, 0, 0, 0)
do_set_bf(db, ofs, bf) == Run("set_bf", db, ofs, bf, 0, 0, 0)
do_unlock_ptr_checked(db, ofs) == Run("unlock_ptr_checked", db, ofs, 0, 0, 0, 0)
do_SetPage(db, pgofs, page) == Run("SetPage", db, pgofs, page, 0, 0, 0)
do_EffNode(db, ofs) == Run("EffNode", db, ofs, 0, 0, 0, 0)
do_TreeNodes(db, root, fuel) == Run("TreeNodes", db, root, fuel, 0, 0, 0)
do_Reach(db, root, depth) == Run("Reach", db, root, depth, 0, 0, 0)
do_FindLoop(db, key, st, ref, cur, has_out) == Run("FindLoop", db, key, st, ref, cur, has_out)
do_find_node_with_backtrace(db, key, root, has_out) == Run("find_node_with_backtrace", db, key, root, has_out, 0, 0)
do_find_key(db, key, rootref) == Run("find_key", db, key, rootref, 0, 0, 0)
do_lock_keyref(db, ref) == Run("lock_keyref", db, ref, 0, 0, 0, 0)
do_Rotate(db, cur, heavy, single) == Run("Rotate", db, cur, heavy, single, 0, 0)
do_rotate_right(db, x, z) == Run("rotate_right", db, x, z, 0, 0, 0)
do_rotate_left(db, x, z) == Run("rotate_left", db, x, z, 0, 0, 0)
do_rotate_right_left(db, x, z) == Run("rotate_right_left", db, x, z, 0, 0, 0)
do_rotate_left_right(db, x, z) == Run("rotate_left_right", db, x, z, 0, 0, 0)
do_backtrace_set_ref(db, st, pos, cur, src) == Run("backtrace_set_ref", db, st, pos, cur, src, 0)
do_balance_down(db, st) == Run("balance_down", db, st, 0, 0, 0, 0)
do_balance_up(db, st) == Run("balance_up", db, st, 0, 0, 0, 0)
do_insert_node(db, item, st) == Run("insert_node", db, item, st, 0, 0, 0)
do_SuccLoop(db, st, ref, succ) == Run("SuccLoop", db, st, ref, succ, 0, 0)
do_remove_node(db, node, st) == Run("remove_node", db, node, st, 0, 0, 0)
do_create_page(db) == Run("create_page", db, 0, 0, 0, 0, 0)
do_alloc_node(db, preferred_page, page_pool) == Run("alloc_node", db, preferred_page, page_pool, 0, 0, 0)
do_free_node(db, node) == Run("free_node", db, node, 0, 0, 0, 0)
do_delete_node(db, node, st) == Run("delete_node", db, node, st, 0, 0, 0)
do_create_node(db, preferred_page, key, type, level) == Run("create_node", db, preferred_page, key, type, level, 0)
do_CreateIn(db, rootref, key, type, level, d) == Run("CreateIn", db, rootref, key, type, level, d)
do_Finish(db) == Run("Finish", db, 0, 0, 0, 0, 0)
do_rollback(db) == Run("rollback", db, 0, 0, 0, 0, 0)
do_lock_unlock_node(db, ofs, node_to_unlock) == Run("lock_unlock_node", db, ofs, node_to_unlock, 0, 0, 0)
do_inorder_next(db, st, ofs, node) == Run("inorder_next", db, st, ofs, node, 0, 0)
do_KeyNodes(db) == Run("KeyNodes", db, 0, 0, 0, 0, 0)
do_KeyView(db, root, depth) == Run("KeyView", db, root, depth, 0, 0, 0)
do_View(db) == Run("View", db, 0, 0, 0, 0, 0)
do_create_backlink(db, link, target) == Run("create_backlink", db, link, target, 0, 0, 0)
do_delete_backlink(db, node) == Run("delete_backlink", db, node, 0, 0, 0, 0)
do_exists_link_to_node(db, target) == Run("exists_link_to_node", db, target, 0, 0, 0, 0)
do_avstor_commit(db) == Run("avstor_commit", db, 0, 0, 0, 0, 0)
do_avstor_create_key(db, parent, key) == Run("avstor_create_key", db, parent, key, 0, 0, 0)
do_avstor_create_int32(db, parent, key, value) == Run("avstor_create_int32", db, parent, key, value, 0, 0)
do_lock_valueref(db, ref, type) == Run("lock_valueref", db, ref, type, 0, 0, 0)
do_avstor_update_int32(db, value, new_val) == Run("avstor_update_int32", db, value, new_val, 0, 0, 0)
do_avstor_create_link(db, parent, key, target) == Run("avstor_create_link", db, parent, key, target, 0, 0)
do_avstor_delete(db, parent, isvalue, key) == Run("avstor_delete", db, parent, isvalue, key, 0, 0)
do_avstor_find(db, parent, isvalue, key) == Run("avstor_find", db, parent, isvalue, key, 0, 0)
do_avstor_inorder_first(db, parent, isvalue, descending) == Run("avstor_inorder_first", db, parent, isvalue, descending, 0, 0)
do_avstor_inorder_next(db, st) == Run("avstor_inorder_next", db, st, 0, 0, 0, 0)
do_avstor_inorder_first_key(db, parent, isvalue, descending, key) ==
    Run("avstor_inorder_first_key", db, parent, isvalue, descending, key, 0)
do_delete_lookup(db, key) == Run("delete_lookup", db, key, 0, 0, 0, 0)
do_delete_remove(db, cur, st) == Run("delete_remove", db, cur, st, 0, 0, 0)

\* ------------------------------------------------------- pages and pointers
\* A pointer into a page frame is modelled by the file offset of what it
\* points at; the frame is the one the cache maps that page to.  Using such a
\* pointer while the page is not resident is undefined ("UB").
ColOf(db, pgofs) == cache_lookup_scan_line(db.rows[cache_get_row(db, pgofs)], pgofs).item

PageAt(db, pgofs) ==
    IF pgofs = 0 THEN db.hdr
    ELSE db.rows[cache_get_row(db, pgofs)].items[do_ColOf(db, pgofs)].page

Resident(db, pgofs) == pgofs = 0 \/ do_ColOf(db, pgofs) # 0

\* lock_page (d = 1) and unlock_page (d = -1) of the page at pgofs
AddLock(db, pgofs, d) ==
    IF db.err # "OK" THEN db
    ELSE IF pgofs = 0 THEN [db EXCEPT !.hdr.lock_count = @ + d]
    ELSE IF ~do_Resident(db, pgofs) THEN THROW(db, "UB")
    ELSE [db EXCEPT !.rows[cache_get_row(db, pgofs)].items[do_ColOf(db, pgofs)].page.lock_count = @ + d]

lock_page(db, pgofs) == do_AddLock(db, pgofs, 1)
unlock_page(db, pgofs) == do_AddLock(db, pgofs, -1)

\* unlock_ptr of a pointer to (or into) the node at ofs; ofs 0 is the header
unlock_ptr(db, ofs) == do_unlock_page(db, PageOf(ofs))
\* unlock_ptr_checked: a pointer that may be NULL (modelled by -1)
unlock_ptr_checked(db, ofs) == IF ofs = -1 THEN db ELSE do_unlock_ptr(db, ofs)

\* a store into the frame of data page pgofs: a db that carries the field
\* "bare" records there that the page's pin count was zero when it was written
NoteWrite(db, pgofs) ==
    IF "bare" \in DOMAIN db /\ pgofs # 0 /\ do_PageAt(db, pgofs).lock_count = 0
    THEN [db EXCEPT !.bare = TRUE]
    ELSE db

set_page_dirty(db, pgofs) ==
    IF db.err # "OK" THEN db
    ELSE IF pgofs = 0 THEN [db EXCEPT !.hdr.dirty = TRUE]
    ELSE IF ~do_Resident(db, pgofs) THEN THROW(db, "UB")
    ELSE NoteWrite([db EXCEPT !.rows[cache_get_row(db, pgofs)].items[do_ColOf(db, pgofs)].page.dirty = TRUE],
                   pgofs)

\* the slot entry a node reference names: a node, a free slot, or 0
SlotEntry(page, index) ==
    LET s == SlotNum(index) IN
    IF s < 1 \/ s > Len(page.slots) THEN FreeSlot(0) ELSE page.slots[s]

\* get_node on a resident page: INVOPER when the slot holds INVALID_INDEX
get_node(db, ofs) ==
    IF db.err # "OK" THEN db
    ELSE LET e == SlotEntry(do_PageAt(db, PageOf(ofs)), IndexOf(ofs)) IN
         IF IsNode(e) THEN db
         ELSE IF e.next = INVALID_INDEX THEN THROW(db, "INVOPER")
         ELSE THROW(db, "UB")

\* the node at ofs, read through its resident page
Node(db, ofs) == do_PageAt(db, PageOf(ofs)).slots[SlotNum(IndexOf(ofs))]

\* the node at ofs replaced by n (the page is not marked dirty by this)
PutNode(db, ofs, n) ==
    IF db.err # "OK" THEN db
    ELSE IF ~do_Resident(db, PageOf(ofs)) THEN THROW(db, "UB")
    ELSE NoteWrite([db EXCEPT !.rows[cache_get_row(db, PageOf(ofs))]
                      .items[do_ColOf(db, PageOf(ofs))].page.slots[SlotNum(IndexOf(ofs))] = n],
                   PageOf(ofs))

get_page(db, page_offset) == do_cache_lookup(db, page_offset, TRUE)

lock_node(db, noderef) == do_get_node(do_get_page(db, PageOf(noderef)), noderef)

\* lock_node_ex: the node a reference stored in the pinned page holder names
lock_node_ex(db, holder, node_ofs) ==
    IF PageOf(node_ofs) # PageOf(holder)
    THEN do_get_node(do_get_page(db, PageOf(node_ofs)), node_ofs)
    ELSE do_get_node(do_lock_page(db, PageOf(holder)), node_ofs)

\* A NodeRef* : the node (0: the header) and the field holding the reference
Ptr(at, f) == [at |-> at, f |-> f]
NullPtr == [at |-> -1, f |-> "null"]

ReadRef(db, ptr) ==
    IF ptr.at = 0 THEN db.hdr[ptr.f] ELSE do_Node(db, ptr.at)[ptr.f]

\* assign_nref: the reference stored and its page marked dirty
assign_nref(db, src, ptr) ==
    IF db.err # "OK" THEN db
    ELSE IF ptr.at = 0 THEN [db EXCEPT !.hdr[ptr.f] = src, !.hdr.dirty = TRUE]
    ELSE do_set_page_dirty(do_PutNode(db, ptr.at, [do_Node(db, ptr.at) EXCEPT ![ptr.f] = src]),
                        PageOf(ptr.at))

set_bf(db, ofs, bf) == do_PutNode(db, ofs, [do_Node(db, ofs) EXCEPT !.bf = bf])
BF(db, ofs) == do_Node(db, ofs).bf

\* the caller's comparer: names are integers
Comparer(a, b) == IF a < b THEN -1 ELSE IF a > b THEN 1 ELSE 0


\* ------------------------------------------------------------ AVL operator
\* A back-trace stack: data is the sequence of {noderef, comp} frames, bottom
\* first; root points at the root reference of the tree.
NewStack(root) == [data |-> << >>, root |-> root]
Pop(st) == [st EXCEPT !.data = SubSeq(st.data, 1, Len(st.data) - 1)]
Top(st) == st.data[Len(st.data)]

\* the descent of find_node_with_backtrace: ref holds the reference to cur,
\* the page of ref and the page of cur are pinned
RECURSIVE FindLoop(_, _, _, _, _, _)
FindLoop(db, key, st, ref, cur, has_out) ==
    IF db.err # "OK" THEN [db |-> db, st |-> st, cur |-> 0, last_ref |-> NullPtr]
    ELSE LET comp == Comparer(key, do_Node(db, cur).name) IN
    IF comp = 0
    THEN [db |-> do_unlock_ptr(db, ref.at), st |-> st, cur |-> cur, last_ref |-> NullPtr]
    ELSE IF Len(st.data) >= AVSTOR_AVL_HEIGHT
    THEN [db |-> THROW(db, "INTERNAL"), st |-> st, cur |-> 0, last_ref |-> NullPtr]
    ELSE LET st1 == [st EXCEPT !.data = Append(@, [noderef |-> cur, comp |-> comp])]
             db1 == do_unlock_ptr(db, ref.at)
             ref1 == Ptr(cur, IF comp < 0 THEN "left" ELSE "right")
             nxt == do_ReadRef(db1, ref1)
         IN  IF nxt = 0
             THEN IF has_out
                  THEN [db |-> db1, st |-> st1, cur |-> 0, last_ref |-> ref1]
                  ELSE [db |-> do_unlock_ptr(db1, ref1.at), st |-> st1, cur |-> 0,
                        last_ref |-> NullPtr]
             ELSE FindLoop(do_lock_node_ex(db1, ref1.at, nxt), key, st1, ref1, nxt, has_out)

\* find_node_with_backtrace: [db, st, cur (0: not found), last_ref]
find_node_with_backtrace(db, key, root, has_out) ==
    IF db.err # "OK" \/ do_ReadRef(db, root) = 0
    THEN [db |-> db, st |-> NewStack(root), cur |-> 0, last_ref |-> NullPtr]
    ELSE do_FindLoop(do_lock_node_ex(do_lock_page(db, PageOf(root.at)), root.at, do_ReadRef(db, root)),
                  key, NewStack(root), root, do_ReadRef(db, root), has_out)

rotate_right(db, x, z) ==
    LET bfz == BF(db, z)
        db1 == do_assign_nref(db, do_Node(db, z).right, Ptr(x, "left"))
        db2 == do_assign_nref(db1, x, Ptr(z, "right"))
    IN  IF bfz = 0 THEN do_set_bf(do_set_bf(db2, x, -1), z, 1)
        ELSE do_set_bf(do_set_bf(db2, x, 0), z, 0)

rotate_left(db, x, z) ==
    LET bfz == BF(db, z)
        db1 == do_assign_nref(db, do_Node(db, z).left, Ptr(x, "right"))
        db2 == do_assign_nref(db1, x, Ptr(z, "left"))
    IN  IF bfz = 0 THEN do_set_bf(do_set_bf(db2, x, 1), z, -1)
        ELSE do_set_bf(do_set_bf(db2, x, 0), z, 0)

\* the balance factors a double rotation leaves: y, whose factor was bfy, is
\* balanced; of x and z the one on the side y leaned away from leans away too
\* (side = 1: x had z to its right)
BfAfter(db, x, y, z, bfy, side) ==
    IF bfy = 0 THEN do_set_bf(do_set_bf(do_set_bf(db, x, 0), z, 0), y, 0)
    ELSE IF bfy * side > 0 THEN do_set_bf(do_set_bf(do_set_bf(db, x, -side), z, 0), y, 0)
    ELSE do_set_bf(do_set_bf(do_set_bf(db, x, 0), z, side), y, 0)

\* [db, z]: z is the new root of the rotated subtree
rotate_right_left(db, x, z) ==
    LET y == do_Node(db, z).left
        db0 == do_lock_node_ex(db, z, y)
    IN  IF db0.err # "OK" THEN [db |-> db0, z |-> z]
        ELSE LET db1 == do_assign_nref(db0, do_Node(db0, y).right, Ptr(z, "left"))
                 db2 == do_assign_nref(db1, z, Ptr(y, "right"))
                 db3 == do_assign_nref(db2, do_Node(db2, y).left, Ptr(x, "right"))
                 db4 == do_assign_nref(db3, x, Ptr(y, "left"))
             IN  [db |-> do_unlock_ptr(BfAfter(db4, x, y, z, BF(db4, y), 1), z), z |-> y]

rotate_left_right(db, x, z) ==
    LET y == do_Node(db, z).right
        db0 == do_lock_node_ex(db, z, y)
    IN  IF db0.err # "OK" THEN [db |-> db0, z |-> z]
        ELSE LET db1 == do_assign_nref(db0, do_Node(db0, y).left, Ptr(z, "right"))
                 db2 == do_assign_nref(db1, z, Ptr(y, "left"))
                 db3 == do_assign_nref(db2, do_Node(db2, y).right, Ptr(x, "left"))
                 db4 == do_assign_nref(db3, x, Ptr(y, "right"))
             IN  [db |-> do_unlock_ptr(BfAfter(db4, x, y, z, BF(db4, y), -1), z), z |-> y]

\* backtrace_set_ref: the child reference of the frame at pos (1-based, 0 for
\* none: then the root reference) that names cur is made to name src
backtrace_set_ref(db, st, pos, cur, src) ==
    IF db.err # "OK" THEN db
    ELSE IF pos >= 1
    THEN LET dest == st.data[pos].noderef
             db1 == do_lock_node(db, dest)
         IN  IF db1.err # "OK" THEN db1
             ELSE IF do_Node(db1, dest).left = cur
             THEN do_unlock_ptr(do_assign_nref(db1, src, Ptr(dest, "left")), dest)
             ELSE IF do_Node(db1, dest).right = cur
             THEN do_unlock_ptr(do_assign_nref(db1, src, Ptr(dest, "right")), dest)
             ELSE THROW(do_unlock_ptr(db1, dest), "INTERNAL")
    ELSE do_assign_nref(db, src, st.root)

\* the rotation both balance loops apply at cur when it leans two to one side
\* (heavy = 1: to the right); single says when one rotation suffices
Rotate(db, cur, heavy, single) ==
    LET z == IF heavy > 0 THEN do_Node(db, cur).right ELSE do_Node(db, cur).left
        db1 == do_lock_node_ex(db, cur, z)
    IN  IF db1.err # "OK" THEN [db |-> db1, z |-> z, b |-> 0]
        ELSE LET b == BF(db1, z)
                 r == IF heavy > 0
                      THEN IF single[b] THEN [db |-> do_rotate_left(db1, cur, z), z |-> z]
                           ELSE do_rotate_right_left(db1, cur, z)
                      ELSE IF single[b] THEN [db |-> do_rotate_right(db1, cur, z), z |-> z]
                           ELSE do_rotate_left_right(db1, cur, z)
             IN  [db |-> r.db, z |-> r.z, b |-> b]

\* balance_down: rebalancing after an insertion; [db, st]
RECURSIVE balance_down(_, _)
balance_down(db, st) ==
    IF db.err # "OK" \/ Len(st.data) = 0 THEN [db |-> db, st |-> st]
    ELSE LET top == Top(st)
             st1 == Pop(st)
             cur == top.noderef
             db1 == do_lock_node(db, cur)
         IN  IF db1.err # "OK" THEN [db |-> db1, st |-> st1]
             ELSE LET comp == IF top.comp < 0 THEN -1 ELSE 1
                      bf_cur == BF(db1, cur)
                  IN  IF bf_cur = 0
                      THEN balance_down(do_unlock_ptr(do_set_page_dirty(do_set_bf(db1, cur, comp),
                                                                  PageOf(cur)), cur), st1)
                      ELSE IF comp + bf_cur # 0
                      THEN LET r == do_Rotate(db1, cur, bf_cur,
                                           [b \in -1..1 |-> IF bf_cur > 0 THEN b > 0 ELSE b < 0])
                               db2 == do_backtrace_set_ref(r.db, st1, Len(st1.data), cur, r.z)
                           IN  [db |-> do_unlock_ptr(do_unlock_ptr(db2, r.z), cur), st |-> st1]
                      ELSE [db |-> do_unlock_ptr(do_set_page_dirty(do_set_bf(db1, cur, 0),
                                                             PageOf(cur)), cur),
                            st |-> st1]

\* balance_up: rebalancing after a removal; [db, st]
RECURSIVE balance_up(_, _)
balance_up(db, st) ==
    IF db.err # "OK" \/ Len(st.data) = 0 THEN [db |-> db, st |-> st]
    ELSE LET top == Top(st)
             st1 == Pop(st)
             cur == top.noderef
             db1 == do_lock_node(db, cur)
         IN  IF db1.err # "OK" THEN [db |-> db1, st |-> st1]
             ELSE LET side == IF top.comp < 0 THEN 1 ELSE -1
                      bf_cur == BF(db1, cur)
                  IN  IF bf_cur = side
                      THEN LET r == do_Rotate(db1, cur, side,
                                           [b \in -1..1 |-> IF side > 0 THEN b >= 0 ELSE b <= 0])
                               db2 == do_backtrace_set_ref(r.db, st1, Len(st1.data), cur, r.z)
                               db3 == do_unlock_ptr(do_unlock_ptr(db2, r.z), cur)
                           IN  IF r.b = 0 THEN [db |-> db3, st |-> st1]
                               ELSE balance_up(db3, st1)
                      ELSE LET db2 == do_set_page_dirty(db1, PageOf(cur)) IN
                           IF bf_cur = 0
                           THEN [db |-> do_unlock_ptr(do_set_bf(db2, cur, side), cur), st |-> st1]
                           ELSE balance_up(do_unlock_ptr(do_set_bf(db2, cur, 0), cur), st1)

\* insert_node: item attached under the top of the back-trace and rebalanced
insert_node(db, item, st) ==
    IF db.err # "OK" THEN db
    ELSE IF Len(st.data) > 0
    THEN LET top == Top(st)
             cur == top.noderef
             db1 == do_lock_node(db, cur)
         IN  IF db1.err # "OK" THEN db1
             ELSE LET db2 == do_assign_nref(db1, item,
                                         Ptr(cur, IF top.comp < 0 THEN "left" ELSE "right"))
                      db3 == do_unlock_ptr(do_set_bf(db2, item, 0), cur)
                  IN  do_balance_down(db3, st).db
    ELSE do_set_bf(do_assign_nref(db, item, st.root), item, 0)

\* the walk of remove_node down the left spine of the right subtree:
\* [db, st, ref, succ], ref being the reference that names succ
RECURSIVE SuccLoop(_, _, _, _)
SuccLoop(db, st, ref, succ) ==
    IF db.err # "OK" \/ do_Node(db, succ).left = 0
    THEN [db |-> db, st |-> st, ref |-> ref, succ |-> succ]
    ELSE IF Len(st.data) >= AVSTOR_AVL_HEIGHT
    THEN [db |-> THROW(db, "INTERNAL"), st |-> st, ref |-> ref, succ |-> succ]
    ELSE LET nxt == do_Node(db, succ).left
             st1 == [st EXCEPT !.data = Append(@, [noderef |-> succ, comp |-> -1])]
         IN  SuccLoop(do_lock_node_ex(do_unlock_ptr(db, ref.at), succ, nxt), st1,
                      Ptr(succ, "left"), nxt)

\* the reference that names the node the back-trace st leads to
TopRef(st) ==
    IF Len(st.data) > 0
    THEN Ptr(Top(st).noderef, IF Top(st).comp < 0 THEN "left" ELSE "right")
    ELSE st.root

\* the successor w.succ, which the walk w found, put in the place of node,
\* whose fields are n and whose frame of the back-trace is at delpos: [db, st]
PutSucc(node, n, w, delpos) ==
    IF w.db.err # "OK" THEN [db |-> w.db, st |-> w.st]
    ELSE LET db2 == do_assign_nref(w.db, n.left, Ptr(w.succ, "left"))
             db3 == IF Len(w.st.data) # delpos
                    THEN do_assign_nref(do_assign_nref(db2, do_Node(db2, w.succ).right, w.ref),
                                     n.right, Ptr(w.succ, "right"))
                    ELSE db2
             db4 == do_lock_node(do_unlock_ptr(db3, w.ref.at), node)
             db5 == do_unlock_ptr(do_backtrace_set_ref(db4, w.st, delpos - 1, node, w.succ), node)
         IN  [db |-> do_unlock_ptr(do_set_bf(db5, w.succ, n.bf), w.succ),
              st |-> [w.st EXCEPT !.data[delpos].noderef = w.succ]]

\* node, whose fields are n and which ref names, taken out of its tree: [db, st]
Unlink(db, node, n, ref, st) ==
    IF n.left = 0 /\ n.right = 0
    THEN [db |-> do_assign_nref(db, 0, ref), st |-> st]
    ELSE IF n.left = 0 \/ n.right = 0
    THEN LET childRef == Ptr(node, IF n.left # 0 THEN "left" ELSE "right") IN
         [db |-> do_assign_nref(do_assign_nref(db, do_ReadRef(db, childRef), ref), 0, childRef),
          st |-> st]
    ELSE IF Len(st.data) >= AVSTOR_AVL_HEIGHT
    THEN [db |-> THROW(db, "INTERNAL"), st |-> st]
    ELSE PutSucc(node, n,
                 do_SuccLoop(do_lock_node_ex(do_lock_page(db, PageOf(node)), node, n.right),
                          [st EXCEPT !.data = Append(@, [noderef |-> node, comp |-> 1])],
                          Ptr(node, "right"), n.right),
                 Len(st.data) + 1)

\* the tree rebalanced from the back-trace r.st, and the references of node cleared
Rebalance(r, node) ==
    do_assign_nref(do_assign_nref(do_balance_up(r.db, r.st).db, 0, Ptr(node, "left")),
                0, Ptr(node, "right"))

RemoveAt(db, node, st) ==
    IF db.err # "OK" THEN db
    ELSE Rebalance(Unlink(db, node, do_Node(db, node), TopRef(st), st), node)

\* remove_node: node (pinned by the caller) unlinked from the tree whose
\* back-trace to node is st, and the tree rebalanced
remove_node(db, node, st) ==
    IF db.err # "OK" THEN db
    ELSE IF Len(st.data) > 0
    THEN RemoveAt(do_unlock_ptr(do_lock_node(db, Top(st).noderef), Top(st).noderef), node, st)
    ELSE RemoveAt(db, node, st)

\* the resident page at pgofs replaced by page
SetPage(db, pgofs, page) ==
    NoteWrite([db EXCEPT !.rows[cache_get_row(db, pgofs)].items[do_ColOf(db, pgofs)].page = page],
              pgofs)

\* create_page refusing one page too late (not what the code does)
create_page_late(d) ==
    IF d.err # "OK" THEN [db |-> d, page |-> 0]
    ELSE IF d.hdr.pagecount = d.cfg.max_pages + 1
    THEN [db |-> THROW(d, "INVOPER"), page |-> 0]
    ELSE LET page_offset == d.hdr.pagecount * PAGE_SIZE
             d1 == do_set_page_dirty(do_cache_lookup(d, page_offset, FALSE), page_offset)
         IN  IF d1.err # "OK" THEN [db |-> d1, page |-> 0]
             ELSE [db |-> [d1 EXCEPT !.hdr.pagecount = @ + 1, !.hdr.dirty = TRUE],
                   page |-> page_offset]

\* create_page: [db, page]; a new page at the end of the file, pinned
create_page(db) ==
    IF db.err # "OK" THEN [db |-> db, page |-> 0]
    ELSE IF db.hdr.pagecount = db.cfg.max_pages
    THEN [db |-> THROW(db, "INVOPER"), page |-> 0]
    ELSE LET page_offset == db.hdr.pagecount * PAGE_SIZE
             db1 == do_set_page_dirty(do_cache_lookup(db, page_offset, FALSE), page_offset)
         IN  IF db1.err # "OK" THEN [db |-> db1, page |-> 0]
             ELSE [db |-> [db1 EXCEPT !.hdr.pagecount = @ + 1, !.hdr.dirty = TRUE],
                   page |-> page_offset]

BlankNode == [type |-> 0, bf |-> 0, left |-> 0, right |-> 0, name |-> 0,
              subkey_root |-> 0, value_root |-> 0, level |-> 0, value |-> 0]

\* [db, page]: the page c.page, just created, made the page of the pool
AllocNew(c, page_pool) ==
    IF c.db.err # "OK" THEN c
    ELSE [db |-> [c.db EXCEPT !.hdr.page_pool[page_pool] = c.page \div PAGE_SIZE],
          page |-> c.page]

\* [db, page]: the page of the pool, at pgofs and pinned in pooled, if it has
\* room, else a new page
AllocPooled(db, pooled, pgofs, page_pool) ==
    IF pooled.err # "OK" THEN [db |-> pooled, page |-> 0]
    ELSE IF get_page_free_space(db, do_PageAt(pooled, pgofs)) >= 1
    THEN [db |-> do_set_page_dirty(pooled, pgofs), page |-> pgofs]
    ELSE AllocNew(do_create_page(do_unlock_page(pooled, pgofs)), page_pool)

\* [db, page]: the page the node goes to, pinned and marked dirty
AllocPage(db, preferred_page, page_pool, page_num) ==
    IF preferred_page # -1 /\ get_page_free_space(db, do_PageAt(db, preferred_page)) >= 1
    THEN [db |-> do_set_page_dirty(do_lock_page(db, preferred_page), preferred_page),
          page |-> preferred_page]
    ELSE IF page_num # 0
    THEN AllocPooled(db, do_get_page(db, page_num * PAGE_SIZE), page_num * PAGE_SIZE, page_pool)
    ELSE AllocNew(do_create_page(db), page_pool)

\* [db, node]: a slot of the page at pgofs, whose content is page
AllocSlot(db, pgofs, page) ==
    IF page.index_freelist = INVALID_INDEX
    THEN [db |-> do_SetPage(db, pgofs, [page EXCEPT !.slots = Append(@, BlankNode)]),
          node |-> pgofs + SlotOfs(Len(page.slots) + 1)]
    ELSE [db |-> do_SetPage(db, pgofs,
                         [page EXCEPT !.index_freelist =
                                          page.slots[SlotNum(page.index_freelist)].next,
                                      !.slots[SlotNum(page.index_freelist)] = BlankNode]),
          node |-> pgofs + page.index_freelist]

AllocIn(r) ==
    IF r.db.err # "OK" THEN [db |-> r.db, node |-> 0]
    ELSE AllocSlot(r.db, r.page, do_PageAt(r.db, r.page))

\* alloc_node: [db, node]; a slot for a node in the preferred page (-1: none),
\* else in the page of the pool, else in a new page; its page is left pinned
alloc_node(db, preferred_page, page_pool) ==
    IF db.err # "OK" THEN [db |-> db, node |-> 0]
    ELSE AllocIn(AllocPage(db, preferred_page, page_pool, db.hdr.page_pool[page_pool]))

\* free_node (resize_node to size 0): the slot of node released
free_node(db, node) ==
    IF db.err # "OK" THEN db ELSE
    LET pg == PageOf(node)
        page == do_PageAt(db, pg)
        s == SlotNum(IndexOf(node))
    IN  IF s = Len(page.slots)
        THEN do_SetPage(db, pg, [page EXCEPT !.slots = SubSeq(@, 1, s - 1)])
        ELSE do_SetPage(db, pg, [page EXCEPT !.slots[s] = FreeSlot(page.index_freelist),
                                          !.index_freelist = IndexOf(node)])

delete_node(db, node, st) == do_free_node(do_remove_node(db, node, st), node)

\* create_node: [db, node]; a node of the given type and name in the page pool
\* of its level
create_node(db, preferred_page, key, type, level) ==
    LET a == do_alloc_node(db, preferred_page,
                        IF type # AVSTOR_TYPE_KEY THEN 2 * level + 1 ELSE 2 * level)
    IN  IF a.db.err # "OK" THEN a
        ELSE [db |-> do_PutNode(a.db, a.node,
                             [do_Node(a.db, a.node) EXCEPT !.type = type, !.left = 0,
                                                        !.right = 0, !.name = key]),
              node |-> a.node]

\* find_key: [db, cur]; the node named key in the tree at rootref left pinned,
\* or cur = 0
RECURSIVE find_key_loop(_, _, _)
find_key_loop(db, key, ref) ==
    IF db.err # "OK" THEN [db |-> db, cur |-> 0]
    ELSE IF do_ReadRef(db, ref) = 0 THEN [db |-> do_unlock_ptr(db, ref.at), cur |-> 0]
    ELSE LET cur == do_ReadRef(db, ref)
             db1 == do_unlock_ptr(do_lock_node_ex(db, ref.at, cur), ref.at)
         IN  IF db1.err # "OK" THEN [db |-> db1, cur |-> 0]
             ELSE LET comp == Comparer(key, do_Node(db1, cur).name) IN
                  IF comp = 0 THEN [db |-> db1, cur |-> cur]
                  ELSE find_key_loop(db1, key, Ptr(cur, IF comp < 0 THEN "left" ELSE "right"))

find_key(db, key, rootref) == find_key_loop(do_lock_page(db, PageOf(rootref.at)), key, rootref)

\* ------------------------------------------------------ commit and rollback
\* the frames of row r from column c on written out, up to the first item
\* that has no frame
RECURSIVE CommitRow(_, _, _)
CommitRow(db, r, c) ==
    IF c > db.rows[r].capacity \/ db.rows[r].items[c].page = NoPage THEN db
    ELSE LET w == write_page(db.file, db.rows[r].items[c].page) IN
         CommitRow([db EXCEPT !.file = w.file, !.rows[r].items[c].page = w.page], r, c + 1)

RECURSIVE CommitRows(_, _)
CommitRows(db, r) == IF r >= db.cfg.l2_len THEN db ELSE CommitRows(CommitRow(db, r, 1), r + 1)

\* the result of an operation on the database, with the error code it returns
Return(db, code) == [db |-> [db EXCEPT !.err = "OK"], code |-> code]

avstor_commit(db) ==
    LET db1 == CommitRows(db, 0)
        w == write_page(db1.file, db1.hdr)
    IN  Return([db1 EXCEPT !.file = w.file, !.hdr = w.page, !.old = w.page], "OK")

\* A commit whose writes may fail.  st is the commit under way: the database,
\* the number of calls of io_write that will still succeed (-1: all), the
\* frames written so far in the order of their writes, and the error raised.
\* write_page of the frame at column c of row r (row -1: the header); a write
\* that fails leaves the page dirty
WriteFrame(st, r, c) ==
    LET page == IF r < 0 THEN st.db.hdr ELSE st.db.rows[r].items[c].page
        w == write_page(st.db.file, page)
    IN  IF ~is_page_dirty(page) THEN st
        ELSE IF st.good = 0 THEN [st EXCEPT !.err = "IOERR"]
        ELSE [st EXCEPT !.db = IF r < 0 THEN [@ EXCEPT !.file = w.file, !.hdr = w.page]
                               ELSE [@ EXCEPT !.file = w.file, !.rows[r].items[c].page = w.page],
                        !.good = IF @ > 0 THEN @ - 1 ELSE @,
                        !.written = Append(@, [row |-> r, col |-> c, ofs |-> page.page_offset])]

RECURSIVE CommitRowIo(_, _, _)
CommitRowIo(st, r, c) ==
    IF st.err # "OK" \/ c > st.db.rows[r].capacity \/ st.db.rows[r].items[c].page = NoPage
    THEN st
    ELSE CommitRowIo(WriteFrame(st, r, c), r, c + 1)

RECURSIVE CommitRowsIo(_, _)
CommitRowsIo(st, r) ==
    IF st.err # "OK" \/ r >= st.db.cfg.l2_len THEN st
    ELSE CommitRowsIo(CommitRowIo(st, r, 1), r + 1)

\* a commit that replaces the shadow header whatever became of its writes
CommitEndAlways(st, flush_fails) ==
    [db |-> [st.db EXCEPT !.old = st.db.hdr],
     code |-> IF st.err # "OK" THEN st.err ELSE IF flush_fails THEN "IOERR" ELSE "OK",
     written |-> st.written]

\* the commit after its writes: the flush, and the shadow header replaced
CommitEnd(st, flush_fails) ==
    IF st.err # "OK" THEN [db |-> st.db, code |-> st.err, written |-> st.written]
    ELSE IF flush_fails THEN [db |-> st.db, code |-> "IOERR", written |-> st.written]
    ELSE [db |-> [st.db EXCEPT !.old = st.db.hdr], code |-> "OK", written |-> st.written]

CommitHeader(st) == IF st.err # "OK" THEN st ELSE WriteFrame(st, -1, 0)

\* avstor_commit with good writes that succeed before one fails (-1: none
\* fails) and a flush that fails or not: [db, code, written]
avstor_commit_io(db, good, flush_fails) ==
    CommitEnd(CommitHeader(CommitRowsIo([db |-> db, good |-> good, written |-> << >>,
                                         err |-> "OK"], 0)),
              flush_fails)

rollback(db) ==
    [db EXCEPT !.hdr = db.old,
               !.rows = [r \in DOMAIN db.rows |->
                   [db.rows[r] EXCEPT !.items = [c \in DOMAIN db.rows[r].items |->
                       LET it == db.rows[r].items[c] IN
                       IF it.page # NoPage /\ it.page.page_offset # 0
                       THEN [it EXCEPT !.offset = IF is_page_dirty(it.page) THEN 0 ELSE @,
                                       !.page.lock_count = 0]
                       ELSE it]]]]

\* the end of a writing operation: OK, or the error after the rollback its
\* handler makes
Finish(db) == IF db.err = "OK" THEN Return(db, "OK") ELSE Return(do_rollback(db), db.err)

\* ------------------------------------------------------- public operations
lock_keyref(db, ref) ==
    IF db.err # "OK" THEN db
    ELSE IF ref = 0 THEN THROW(db, "PARAM")
    ELSE LET db1 == do_lock_node(db, ref) IN
         IF db1.err # "OK" THEN db1
         ELSE IF do_Node(db1, ref).type # AVSTOR_TYPE_KEY
         THEN THROW(do_unlock_ptr(db1, ref), "MISMATCH")
         ELSE db1

PrefPage(last_ref) == IF last_ref = NullPtr THEN -1 ELSE PageOf(last_ref.at)
UnlockRef(db, last_ref) == do_unlock_ptr_checked(db, last_ref.at)

\* the part the create operations share: the node named key of the given type
\* inserted into the tree at rootref with the data fields d; [db, node, st, last_ref]
CreateIn(db, rootref, key, type, level, d) ==
    LET f == do_find_node_with_backtrace(db, key, rootref, TRUE) IN
    IF f.db.err # "OK" THEN [db |-> f.db, node |-> 0, found |-> 0, last_ref |-> NullPtr]
    ELSE IF f.cur # 0 THEN [db |-> f.db, node |-> 0, found |-> f.cur, last_ref |-> NullPtr]
    ELSE LET c == do_create_node(f.db, PrefPage(f.last_ref), key, type, level)
             n == [do_Node(c.db, c.node) EXCEPT !.subkey_root = d.subkey_root,
                                             !.value_root = d.value_root,
                                             !.level = d.level, !.value = d.value]
         IN  [db |-> do_insert_node(do_PutNode(c.db, c.node, n), c.node, f.st),
              node |-> c.node, found |-> 0, last_ref |-> f.last_ref]

KeyData(level) == [subkey_root |-> 0, value_root |-> 0, level |-> level, value |-> 0]
ValueData(v) == [subkey_root |-> 0, value_root |-> 0, level |-> 0, value |-> v]

\* lock_valueref: the node of the handle pinned, MISMATCH when it is of
\* another type (lock_noderef throws PARAM for the null reference)
lock_valueref(d, ref, type) ==
    IF d.err # "OK" THEN d
    ELSE IF ref = 0 THEN THROW(d, "PARAM")
    ELSE LET d1 == do_lock_node(d, ref) IN
         IF d1.err # "OK" THEN d1
         ELSE IF do_Node(d1, ref).type # type
         THEN THROW(do_unlock_ptr(d1, ref), "MISMATCH")
         ELSE d1

\* avstor_update_int32 with a handler that rolls back (not what the code does)
avstor_update_int32_rollback(d, value, new_val) ==
    LET d1 == do_lock_valueref(d, value, AVSTOR_TYPE_INT32) IN
    IF d1.err # "OK" THEN do_Finish(d1)
    ELSE Return(do_unlock_ptr(do_set_page_dirty(
                    do_PutNode(d1, value, [do_Node(d1, value) EXCEPT !.value = new_val]),
                    PageOf(value)), value), "OK")

\* avstor_update_int32: the handler unpins the node if it was pinned and
\* returns the error; it does not call rollback
avstor_update_int32(d, value, new_val) ==
    LET d1 == do_lock_valueref(d, value, AVSTOR_TYPE_INT32) IN
    IF d1.err # "OK" THEN Return(d1, d1.err)
    ELSE Return(do_unlock_ptr(do_set_page_dirty(
                    do_PutNode(d1, value, [do_Node(d1, value) EXCEPT !.value = new_val]),
                    PageOf(value)), value), "OK")

avstor_create_key(db, parent, key) ==
    LET db1 == IF parent # 0 THEN do_lock_keyref(db, parent) ELSE db IN
    IF db1.err # "OK" THEN do_Finish(db1) ELSE
    LET level == IF parent # 0 THEN do_Node(db1, parent).level + 1 ELSE 1
        rootref == IF parent # 0 THEN Ptr(parent, "subkey_root") ELSE Ptr(0, "root")
        c == do_CreateIn(db1, rootref, key, AVSTOR_TYPE_KEY, level, KeyData(level))
    IN  IF c.found # 0 THEN do_Finish(THROW(c.db, "EXISTS"))
        ELSE do_Finish(do_unlock_ptr_checked(UnlockRef(do_unlock_ptr(c.db, c.node), c.last_ref),
                                       IF parent # 0 THEN parent ELSE -1))

avstor_create_int32(db, parent, key, value) ==
    LET db1 == do_lock_keyref(db, parent) IN
    IF db1.err # "OK" THEN do_Finish(db1) ELSE
    LET c == do_CreateIn(db1, Ptr(parent, "value_root"), key, AVSTOR_TYPE_INT32,
                      do_Node(db1, parent).level, ValueData(value))
    IN  IF c.found # 0 THEN do_Finish(THROW(do_unlock_ptr(c.db, c.found), "EXISTS"))
        ELSE do_Finish(do_unlock_ptr(do_unlock_ptr(UnlockRef(c.db, c.last_ref), c.node), parent))

\* create_backlink: under the back-link key named by the target's offset, an
\* entry named by the link's offset
create_backlink(db, link, target) ==
    LET k == do_CreateIn(db, Ptr(0, "root_links"), target, AVSTOR_TYPE_KEY, 0, KeyData(0))
        node == IF k.found # 0 THEN k.found ELSE k.node
        db1 == UnlockRef(k.db, k.last_ref)
    IN  IF db1.err # "OK" THEN db1 ELSE
    LET e == do_CreateIn(db1, Ptr(node, "value_root"), link, AVSTOR_TYPE_LINK, 0,
                      ValueData(link))
    IN  IF e.found # 0 THEN THROW(e.db, "INTERNAL")
        ELSE do_unlock_ptr(do_unlock_ptr(UnlockRef(e.db, e.last_ref), e.node), node)

avstor_create_link(db, parent, key, target) ==
    IF target = 0 THEN Return(db, "PARAM") ELSE
    LET db1 == do_lock_keyref(db, parent) IN
    IF db1.err # "OK" THEN do_Finish(db1) ELSE
    LET c == do_CreateIn(db1, Ptr(parent, "value_root"), key, AVSTOR_TYPE_LINK,
                      do_Node(db1, parent).level, ValueData(target))
    IN  IF c.found # 0 THEN do_Finish(THROW(do_unlock_ptr(c.db, c.found), "EXISTS"))
        ELSE do_Finish(do_unlock_ptr(do_create_backlink(do_unlock_ptr(UnlockRef(c.db, c.last_ref),
                                                          c.node),
                                               c.node, target),
                               parent))

\* exists_link_to_node: [db, result]; whether the back-link tree has a key
\* named by the offset of target
exists_link_to_node(db, target) ==
    LET f == do_find_key(db, target, Ptr(0, "root_links")) IN
    [db |-> IF f.cur # 0 THEN do_unlock_ptr(f.db, f.cur) ELSE f.db, result |-> f.cur # 0]

\* delete_backlink: the back-link entry of the link node removed, and its
\* back-link key with it when that was the last entry
delete_backlink(db, node) ==
    IF db.err # "OK" THEN db ELSE
    LET f == do_find_node_with_backtrace(db, do_Node(db, node).value, Ptr(0, "root_links"), FALSE)
    IN  IF f.db.err # "OK" \/ f.cur = 0 THEN f.db ELSE
    LET g == do_find_node_with_backtrace(f.db, node, Ptr(f.cur, "value_root"), FALSE)
        db2 == IF g.cur # 0 THEN do_unlock_ptr(do_delete_node(g.db, g.cur, g.st), g.cur)
               ELSE g.db
    IN  IF db2.err # "OK" THEN db2
        ELSE IF do_Node(db2, f.cur).value_root = 0
        THEN do_unlock_ptr(do_delete_node(db2, f.cur, f.st), f.cur)
        ELSE do_unlock_ptr(db2, f.cur)

\* the tree of parent an operation with the given flag works on
RootRef(parent, isvalue) ==
    IF isvalue THEN Ptr(parent, "value_root")
    ELSE IF parent = 0 THEN Ptr(0, "root") ELSE Ptr(parent, "subkey_root")

avstor_delete(db, parent, isvalue, key) ==
    IF isvalue /\ parent = 0 THEN Return(db, "PARAM") ELSE
    LET db1 == IF parent # 0 THEN do_lock_keyref(db, parent) ELSE db
        f == do_find_node_with_backtrace(db1, key, RootRef(parent, isvalue), TRUE)
        pn == IF parent # 0 THEN parent ELSE -1
    IN  IF f.db.err # "OK" THEN do_Finish(f.db)
        ELSE IF f.cur = 0
        THEN Return(do_unlock_ptr_checked(UnlockRef(f.db, f.last_ref), pn), "NOTFOUND")
        ELSE LET n == do_Node(f.db, f.cur) IN
             IF n.type = AVSTOR_TYPE_KEY /\ (n.subkey_root # 0 \/ n.value_root # 0)
             THEN do_Finish(THROW(f.db, "INVOPER"))
             ELSE LET x == do_exists_link_to_node(f.db, f.cur) IN
                  IF x.db.err = "OK" /\ x.result THEN do_Finish(THROW(x.db, "INVOPER"))
                  ELSE LET db3 == IF n.type = AVSTOR_TYPE_LINK
                                  THEN do_delete_backlink(x.db, f.cur) ELSE x.db
                       IN  do_Finish(do_unlock_ptr_checked(
                                      do_unlock_ptr(do_delete_node(db3, f.cur, f.st), f.cur), pn))

\* avstor_delete of a root key in its two parts.  Under the shared lock: the
\* lookup and the checks, [db, cur (the node found and pinned, or 0), st, code]
delete_lookup(db, key) ==
    LET f == do_find_node_with_backtrace(db, key, RootRef(0, FALSE), TRUE) IN
    IF f.db.err # "OK" THEN [db |-> f.db, cur |-> 0, st |-> f.st, code |-> f.db.err]
    ELSE IF f.cur = 0
    THEN [db |-> UnlockRef(f.db, f.last_ref), cur |-> 0, st |-> f.st, code |-> "NOTFOUND"]
    ELSE IF do_Node(f.db, f.cur).type = AVSTOR_TYPE_KEY
            /\ (do_Node(f.db, f.cur).subkey_root # 0 \/ do_Node(f.db, f.cur).value_root # 0)
    THEN [db |-> f.db, cur |-> f.cur, st |-> f.st, code |-> "INVOPER"]
    ELSE LET x == do_exists_link_to_node(f.db, f.cur) IN
         [db |-> x.db, cur |-> f.cur, st |-> f.st,
          code |-> IF x.db.err # "OK" THEN x.db.err ELSE IF x.result THEN "INVOPER" ELSE "OK"]

\* under the exclusive lock the upgrade gave: the removal of the node found
delete_remove(db, cur, st) ==
    LET db3 == IF do_Node(db, cur).type = AVSTOR_TYPE_LINK THEN do_delete_backlink(db, cur) ELSE db
    IN  do_Finish(do_unlock_ptr(do_delete_node(db3, cur, st), cur))

avstor_find(db, parent, isvalue, key) ==
    IF isvalue /\ parent = 0 THEN Return(db, "PARAM") ELSE
    LET db1 == IF parent # 0 THEN do_lock_keyref(db, parent) ELSE db
        pn == IF parent # 0 THEN parent ELSE -1
    IN  IF db1.err # "OK" THEN Return(db1, db1.err) ELSE
    LET f == do_find_key(db1, key, RootRef(parent, isvalue)) IN
        IF f.db.err # "OK"
        THEN Return(do_unlock_ptr_checked([f.db EXCEPT !.err = "OK"], pn), f.db.err)
        ELSE IF f.cur # 0
        THEN Return(do_unlock_ptr_checked(do_unlock_ptr(f.db, f.cur), pn), "OK")
        ELSE Return(do_unlock_ptr_checked(f.db, pn), "NOTFOUND")

\* ------------------------------------------------------------------- cursor
\* lock_unlock_node: the page of ofs pinned in place of the page of
\* node_to_unlock (-1: none); a node of the same page keeps its pin
lock_unlock_node(db, ofs, node_to_unlock) ==
    IF db.err # "OK" THEN db
    ELSE IF node_to_unlock = -1 THEN do_lock_node(db, ofs)
    ELSE IF PageOf(ofs) # PageOf(node_to_unlock)
    THEN do_get_node(do_get_page(do_unlock_ptr(db, node_to_unlock), PageOf(ofs)), ofs)
    ELSE do_get_node(db, ofs)

\* an avstor_inorder: the stack of node offsets, and the DESCENDING flag
NewInorder(descending) == [data |-> << >>, descending |-> descending]

\* the result of a cursor call: the error code, the cursor state, the node
CursorReturn(db, st, code, ref) ==
    [db |-> [db EXCEPT !.err = "OK"], st |-> st, code |-> code, ref |-> ref]

\* inorder_next: [db, st, code, ref]; an exception leaves its code in db.err
RECURSIVE inorder_next(_, _, _, _)
inorder_next(db, st, ofs, node) ==
    IF db.err # "OK" THEN CursorReturn(db, st, db.err, 0)
    ELSE IF Len(st.data) = 0 /\ ofs = 0
    THEN CursorReturn(do_unlock_ptr_checked(db, node), [st EXCEPT !.data = << >>],
                      "NOTFOUND", 0)
    ELSE IF ofs # 0
    THEN IF Len(st.data) >= AVSTOR_AVL_HEIGHT
         THEN CursorReturn(do_unlock_ptr_checked(db, node), st, "CORRUPT", 0)
         ELSE LET st1 == [st EXCEPT !.data = Append(@, ofs)]
                  db1 == do_lock_unlock_node(db, ofs, node)
              IN  IF db1.err # "OK" THEN CursorReturn(db1, st1, db1.err, 0)
                  ELSE inorder_next(db1, st1,
                                    IF st.descending THEN do_Node(db1, ofs).right
                                    ELSE do_Node(db1, ofs).left, ofs)
    ELSE CursorReturn(do_unlock_ptr_checked(db, node), st, "OK", Top(st))

\* avstor_inorder_first without a key
avstor_inorder_first(db, parent, isvalue, descending) ==
    IF isvalue /\ parent = 0 THEN CursorReturn(db, NewInorder(descending), "PARAM", 0) ELSE
    LET st == NewInorder(descending)
        db1 == IF parent # 0 THEN do_lock_keyref(db, parent) ELSE db
    IN  IF db1.err # "OK" THEN CursorReturn(db1, st, db1.err, 0) ELSE
        LET ofs == do_ReadRef(db1, RootRef(parent, isvalue))
            db2 == IF parent # 0 THEN do_unlock_ptr(db1, parent) ELSE db1
        IN  do_inorder_next(db2, st, ofs, -1)

\* find_node_for_inorder: [db, st, ref (the node named key, or 0)]; on the way
\* down the stack takes the nodes the traversal has still to return, those
\* not before key.  InorderSeek is the loop at the node cur, which is pinned,
\* SeekOn its part after the push
RECURSIVE InorderSeek(_, _, _, _)
RECURSIVE SeekOn(_, _, _, _, _)
InorderSeek(db, st, key, cur) ==
    IF db.err # "OK" THEN [db |-> db, st |-> st, ref |-> 0]
    ELSE IF (IF st.descending THEN -Comparer(key, do_Node(db, cur).name)
             ELSE Comparer(key, do_Node(db, cur).name)) <= 0
    THEN IF Len(st.data) >= AVSTOR_AVL_HEIGHT
         THEN [db |-> THROW(do_unlock_ptr(db, cur), "CORRUPT"), st |-> st, ref |-> 0]
         ELSE SeekOn(db, [st EXCEPT !.data = Append(@, cur)], key, cur,
                     Comparer(key, do_Node(db, cur).name))
    ELSE SeekOn(db, st, key, cur, Comparer(key, do_Node(db, cur).name))

SeekOn(db, st, key, cur, comp) ==
    IF comp = 0 THEN [db |-> do_unlock_ptr(db, cur), st |-> st, ref |-> cur]
    ELSE IF do_Node(db, cur)[IF comp < 0 THEN "left" ELSE "right"] = 0
    THEN [db |-> do_unlock_ptr(db, cur), st |-> st, ref |-> 0]
    ELSE InorderSeek(do_lock_unlock_node(db, do_Node(db, cur)[IF comp < 0 THEN "left" ELSE "right"], cur),
                     st, key, do_Node(db, cur)[IF comp < 0 THEN "left" ELSE "right"])

find_node_for_inorder(db, st, key, ofs) ==
    IF ofs = 0 \/ db.err # "OK" THEN [db |-> db, st |-> st, ref |-> 0]
    ELSE InorderSeek(do_lock_node(db, ofs), st, key, ofs)

\* what avstor_inorder_first makes of the node find_node_for_inorder found
SeekReturn(f) ==
    IF f.db.err # "OK" THEN CursorReturn(f.db, f.st, f.db.err, 0)
    ELSE IF f.ref # 0 THEN CursorReturn(f.db, f.st, "OK", f.ref)
    ELSE IF Len(f.st.data) > 0 THEN CursorReturn(f.db, f.st, "OK", Top(f.st))
    ELSE CursorReturn(f.db, f.st, "NOTFOUND", 0)

\* avstor_inorder_first with a key
avstor_inorder_first_key(db, parent, isvalue, descending, key) ==
    IF isvalue /\ parent = 0 THEN CursorReturn(db, NewInorder(descending), "PARAM", 0) ELSE
    LET st == NewInorder(descending)
        db1 == IF parent # 0 THEN do_lock_keyref(db, parent) ELSE db
    IN  IF db1.err # "OK" THEN CursorReturn(db1, st, db1.err, 0) ELSE
        LET ofs == do_ReadRef(db1, RootRef(parent, isvalue))
            db2 == IF parent # 0 THEN do_unlock_ptr(db1, parent) ELSE db1
        IN  SeekReturn(find_node_for_inorder(db2, st, key, ofs))

avstor_inorder_next(db, st) ==
    IF Len(st.data) = 0 THEN CursorReturn(db, st, "NOTFOUND", 0) ELSE
    LET st1 == Pop(st)
        db1 == do_lock_node(db, Top(st))
    IN  IF db1.err # "OK" THEN CursorReturn(db1, st1, db1.err, 0) ELSE
        LET ofs == IF st.descending THEN do_Node(db1, Top(st)).left
                   ELSE do_Node(db1, Top(st)).right
        IN  do_inorder_next(do_unlock_ptr(db1, Top(st)), st1, ofs, -1)

\* ----------------------------------------------------------- open and close
NewRows(cfg) == [r \in 0..(cfg.l2_len - 1) |-> NewRow(cfg.assoc)]
NoFile(cfg) == [p \in 0..(cfg.max_pages - 1) |-> NoPage]

\* avstor_open with AVSTOR_OPEN_CREATE: db_create_file commits the new header
db_create_file(cfg, autosave) ==
    do_avstor_commit([hdr |-> NewHeader, old |-> NewHeader, rows |-> NewRows(cfg),
                   file |-> NoFile(cfg), cfg |-> cfg, autosave |-> autosave,
                   err |-> "OK"]).db

\* avstor_open of an existing file: [db, code]
db_open_file(cfg, file, autosave) ==
    LET rp == read_page(file, 0) IN
    [db |-> [hdr |-> rp.page, old |-> rp.page, rows |-> NewRows(cfg), file |-> file,
             cfg |-> cfg, autosave |-> autosave, err |-> "OK"],
     code |-> rp.err]

\* -------------------------------------------------- what the database holds
\* The content an operation finds at a page: the frame the cache maps it to,
\* else the page in the file.
EffPage(db, pgofs) ==
    IF do_Resident(db, pgofs) THEN do_PageAt(db, pgofs)
    ELSE IF (pgofs \div PAGE_SIZE) \in DOMAIN db.file THEN db.file[pgofs \div PAGE_SIZE]
    ELSE NoPage

BadNode == [BlankNode EXCEPT !.type = -1]

EffNode(db, ofs) ==
    LET pg == EffPage(db, PageOf(ofs)) IN
    IF pg = NoPage THEN BadNode
    ELSE IF IsNode(SlotEntry(pg, IndexOf(ofs))) THEN SlotEntry(pg, IndexOf(ofs))
    ELSE BadNode

Fuel(db) == db.cfg.npp * db.cfg.max_pages

\* the offsets of the nodes of the tree at root
RECURSIVE TreeNodes(_, _, _)
TreeNodes(db, root, fuel) ==
    IF root = 0 \/ fuel = 0 THEN {}
    ELSE {root} \cup TreeNodes(db, do_EffNode(db, root).left, fuel - 1)
                \cup TreeNodes(db, do_EffNode(db, root).right, fuel - 1)

\* the keys of the tree at root, each with its values and its subkeys
RECURSIVE KeyView(_, _, _)
KeyView(db, root, depth) ==
    { LET n == do_EffNode(db, o) IN
      [name |-> n.name, type |-> n.type, value |-> n.value,
       vals |-> IF n.type = AVSTOR_TYPE_KEY /\ depth > 0
                THEN KeyView(db, n.value_root, 0) ELSE {},
       keys |-> IF n.type = AVSTOR_TYPE_KEY /\ depth > 0
                THEN KeyView(db, n.subkey_root, depth - 1) ELSE {}]
      : o \in do_TreeNodes(db, root, Fuel(db)) }

View(db) == do_KeyView(db, db.hdr.root, MaxLevel)

\* the offsets of the nodes reachable from the tree at root
RECURSIVE Reach(_, _, _)
Reach(db, root, depth) ==
    LET t == do_TreeNodes(db, root, Fuel(db)) IN
    t \cup UNION { IF do_EffNode(db, o).type = AVSTOR_TYPE_KEY /\ depth > 0
                   THEN do_TreeNodes(db, do_EffNode(db, o).value_root, Fuel(db))
                        \cup Reach(db, do_EffNode(db, o).subkey_root, depth - 1)
                   ELSE {} : o \in t }

KeyNodes(db) == {o \in do_Reach(db, db.hdr.root, MaxLevel) : do_EffNode(db, o).type = AVSTOR_TYPE_KEY}

\* the heights and the AVL shape of a stored tree
RECURSIVE Height(_, _, _)
Height(db, root, fuel) ==
    IF root = 0 \/ fuel = 0 THEN 0
    ELSE LET l == Height(db, do_EffNode(db, root).left, fuel - 1)
             r == Height(db, do_EffNode(db, root).right, fuel - 1)
         IN  1 + (IF l > r THEN l ELSE r)

\* the tree at root is a search tree with names strictly between lo and hi
\* whose every node stores the height of its right subtree minus the height of
\* its left subtree, and that is -1, 0 or 1
RECURSIVE IsAvl(_, _, _, _, _)
IsAvl(db, root, lo, hi, fuel) ==
    \/ root = 0
    \/ /\ fuel > 0
       /\ LET n == do_EffNode(db, root) IN
          /\ n.type # -1
          /\ lo < n.name /\ n.name < hi
          /\ n.bf = Height(db, n.right, fuel) - Height(db, n.left, fuel)
          /\ n.bf \in -1..1
          /\ IsAvl(db, n.left, lo, n.name, fuel - 1)
          /\ IsAvl(db, n.right, n.name, hi, fuel - 1)

\* the roots of all the trees of the database: the root keys, the back-link
\* keys, and the subkeys and the values of every key
TreeRoots(db) ==
    LET ks == {o \in do_Reach(db, db.hdr.root, MaxLevel) \cup do_Reach(db, db.hdr.root_links, 1) :
                  do_EffNode(db, o).type = AVSTOR_TYPE_KEY}
    IN  {db.hdr.root, db.hdr.root_links}
            \cup {do_EffNode(db, o).subkey_root : o \in ks}
            \cup {do_EffNode(db, o).value_root : o \in ks}

AllAvl(db) == \A root \in TreeRoots(db) : IsAvl(db, root, -1, 4096 * PAGE_SIZE, Fuel(db))

\* the call of the operator named f
Run(f, a1, a2, a3, a4, a5, a6) ==
    CASE f = "Node" -> Node(a1, a2)
      [] f = "PageAt" -> PageAt(a1, a2)
      [] f = "ColOf" -> ColOf(a1, a2)
      [] f = "Resident" -> Resident(a1, a2)
      [] f = "PutNode" -> PutNode(a1, a2, a3)
      [] f = "ReadRef" -> ReadRef(a1, a2)
      [] f = "unlock_ptr" -> unlock_ptr(a1, a2)
      [] f = "unlock_page" -> unlock_page(a1, a2)
      [] f = "lock_page" -> lock_page(a1, a2)
      [] f = "AddLock" -> AddLock(a1, a2, a3)
      [] f = "set_page_dirty" -> set_page_dirty(a1, a2)
      [] f = "get_node" -> get_node(a1, a2)
      [] f = "get_page" -> get_page(a1, a2)
      [] f = "cache_lookup" -> cache_lookup(a1, a2, a3)
      [] f = "lock_node" -> lock_node(a1, a2)
      [] f = "lock_node_ex" -> lock_node_ex(a1, a2, a3)
      [] f = "assign_nref" -> assign_nref(a1, a2, a3)
      [] f = "set_bf" -> set_bf(a1, a2, a3)
      [] f = "unlock_ptr_checked" -> unlock_ptr_checked(a1, a2)
      [] f = "SetPage" -> SetPage(a1, a2, a3)
      [] f = "EffNode" -> EffNode(a1, a2)
      [] f = "TreeNodes" -> TreeNodes(a1, a2, a3)
      [] f = "Reach" -> Reach(a1, a2, a3)
      [] f = "FindLoop" -> FindLoop(a1, a2, a3, a4, a5, a6)
      [] f = "find_node_with_backtrace" -> find_node_with_backtrace(a1, a2, a3, a4)
      [] f = "find_key" -> find_key(a1, a2, a3)
      [] f = "lock_keyref" -> lock_keyref(a1, a2)
      [] f = "Rotate" -> Rotate(a1, a2, a3, a4)
      [] f = "rotate_right" -> rotate_right(a1, a2, a3)
      [] f = "rotate_left" -> rotate_left(a1, a2, a3)
      [] f = "rotate_right_left" -> rotate_right_left(a1, a2, a3)
      [] f = "rotate_left_right" -> rotate_left_right(a1, a2, a3)
      [] f = "backtrace_set_ref" -> backtrace_set_ref(a1, a2, a3, a4, a5)
      [] f = "balance_down" -> balance_down(a1, a2)
      [] f = "balance_up" -> balance_up(a1, a2)
      [] f = "insert_node" -> insert_node(a1, a2, a3)
      [] f = "SuccLoop" -> SuccLoop(a1, a2, a3, a4)
      [] f = "remove_node" -> remove_node(a1, a2, a3)
      [] f = "create_page" -> create_page(a1)
      [] f = "alloc_node" -> alloc_node(a1, a2, a3)
      [] f = "free_node" -> free_node(a1, a2)
      [] f = "delete_node" -> delete_node(a1, a2, a3)
      [] f = "create_node" -> create_node(a1, a2, a3, a4, a5)
      [] f = "CreateIn" -> CreateIn(a1, a2, a3, a4, a5, a6)
      [] f = "Finish" -> Finish(a1)
      [] f = "rollback" -> rollback(a1)
      [] f = "lock_unlock_node" -> lock_unlock_node(a1, a2, a3)
      [] f = "inorder_next" -> inorder_next(a1, a2, a3, a4)
      [] f = "KeyNodes" -> KeyNodes(a1)
      [] f = "KeyView" -> KeyView(a1, a2, a3)
      [] f = "View" -> View(a1)
      [] f = "create_backlink" -> create_backlink(a1, a2, a3)
      [] f = "delete_backlink" -> delete_backlink(a1, a2)
      [] f = "exists_link_to_node" -> exists_link_to_node(a1, a2)
      [] f = "avstor_commit" -> avstor_commit(a1)
      [] f = "avstor_create_key" -> avstor_create_key(a1, a2, a3)
      [] f = "avstor_create_int32" -> avstor_create_int32(a1, a2, a3, a4)
      [] f = "lock_valueref" -> lock_valueref(a1, a2, a3)
      [] f = "avstor_update_int32" -> avstor_update_int32(a1, a2, a3)
      [] f = "avstor_create_link" -> avstor_create_link(a1, a2, a3, a4)
      [] f = "avstor_delete" -> avstor_delete(a1, a2, a3, a4)
      [] f = "avstor_find" -> avstor_find(a1, a2, a3, a4)
      [] f = "avstor_inorder_first" -> avstor_inorder_first(a1, a2, a3, a4)
      [] f = "avstor_inorder_next" -> avstor_inorder_next(a1, a2)
      [] f = "avstor_inorder_first_key" -> avstor_inorder_first_key(a1, a2, a3, a4, a5)
      [] f = "delete_lookup" -> delete_lookup(a1, a2)
      [] f = "delete_remove" -> delete_remove(a1, a2, a3)

\* ------------------------------------------------------------ specification
\* db: the database; res: the last operation and the code it returned;
\* committed: what the database held after the last commit; steps: operations
\* made; env: the cache geometry and the names the callers use; look: the
\* cache lookups of the threads and the pins they hold
VARIABLES db, res, committed, cursor, steps, env, lock, pc, upgraded, look
vars == <<db, res, committed, cursor, steps, env, lock, pc, upgraded, look>>
locks == <<lock, pc, upgraded, look>>

\* the code an operation returned; a create and a delete are recorded with
\* the tree and the name they were given, a commit whose writes may fail with
\* the frames it wrote
Result(op, code) ==
    [op |-> op, code |-> code, parent |-> 0, isvalue |-> FALSE, key |-> 0, written |-> << >>]

Bounded == steps < env.steps

Parents == {0} \cup do_KeyNodes(db)

\* no traversal is under way
NoCursor == [open |-> FALSE, st |-> NewInorder(FALSE), root |-> 0, seen |-> << >>,
             code |-> "OK", failed |-> FALSE, key |-> 0]

\* the writes of a commit that succeed before one fails, at most
IoGood == 2

\* a writer ran: one more call, and the traversal under way is over
Written ==
    /\ steps' = steps + 1
    /\ cursor' = NoCursor
    /\ UNCHANGED <<env, locks>>

CreateKey ==
    /\ Bounded
    /\ \E parent \in {p \in Parents : IF p = 0 THEN env.levels >= 1
                                      ELSE do_EffNode(db, p).level < env.levels},
          key \in 1..env.keys :
         LET r == do_avstor_create_key(db, parent, key) IN
         /\ db' = r.db
         /\ res' = [Result("create_key", r.code) EXCEPT !.parent = parent, !.key = key]
    /\ Written
    /\ UNCHANGED committed

CreateInt32 ==
    /\ Bounded
    /\ \E parent \in do_KeyNodes(db), key \in 1..env.values :
         LET r == do_avstor_create_int32(db, parent, key, 7) IN
         /\ db' = r.db
         /\ res' = [Result("create_int32", r.code) EXCEPT !.parent = parent,
                                                           !.isvalue = TRUE, !.key = key]
    /\ Written
    /\ UNCHANGED committed

CreateLink ==
    /\ Bounded
    /\ \E parent \in do_KeyNodes(db), key \in 1..env.values, target \in do_KeyNodes(db) :
         LET r == do_avstor_create_link(db, parent, key, target) IN
         /\ db' = r.db
         /\ res' = [Result("create_link", r.code) EXCEPT !.parent = parent,
                                                          !.isvalue = TRUE, !.key = key]
    /\ Written
    /\ UNCHANGED committed

Delete ==
    /\ Bounded
    /\ \E parent \in Parents, isvalue \in BOOLEAN :
       \E key \in 1..(IF isvalue THEN env.values ELSE env.keys) :
         LET r == do_avstor_delete(db, parent, isvalue, key) IN
         /\ db' = r.db
         /\ res' = [Result("delete", r.code) EXCEPT !.parent = parent,
                                                     !.isvalue = isvalue, !.key = key]
    /\ Written
    /\ UNCHANGED committed

Commit ==
    /\ Bounded
    /\ db' = do_avstor_commit(db).db
    /\ res' = Result("commit", "OK")
    /\ committed' = do_View(db')
    /\ Written

\* avstor_commit on a file whose writes and flush may fail
CommitIo ==
    /\ Bounded
    /\ \E good \in -1..IoGood, flush_fails \in BOOLEAN :
         LET r == avstor_commit_io(db, good, flush_fails) IN
         /\ db' = r.db
         /\ res' = [Result("commit", r.code) EXCEPT !.written = r.written]
         /\ committed' = IF r.code = "OK" THEN do_View(db') ELSE committed
    /\ Written

Find ==
    /\ Bounded
    /\ \E parent \in Parents, isvalue \in BOOLEAN :
       \E key \in 1..(IF isvalue THEN env.values ELSE env.keys) :
         LET r == do_avstor_find(db, parent, isvalue, key) IN
         /\ db' = r.db
         /\ res' = Result("find", r.code)
    /\ steps' = steps + 1
    /\ UNCHANGED <<committed, cursor, env, locks>>

\* avstor_close and avstor_open of the same file
Reopen ==
    /\ Bounded
    /\ LET r == db_open_file(db.cfg, db.file, db.autosave) IN
         /\ db' = r.db
         /\ res' = Result("open", r.code)
    /\ Written
    /\ UNCHANGED committed

\* the root of the tree of parent that a call selects
TreeRoot(d, parent, isvalue) ==
    IF parent = 0 THEN d.hdr.root
    ELSE IF isvalue THEN do_EffNode(d, parent).value_root
    ELSE do_EffNode(d, parent).subkey_root

\* the traversal after a cursor call returned r: the names seen so far
Visit(c, r) ==
    [c EXCEPT !.st = r.st, !.code = r.code,
              !.failed = @ \/ r.code \notin {"OK", "NOTFOUND"},
              !.seen = IF r.code = "OK" THEN Append(@, do_EffNode(r.db, r.ref).name) ELSE @]

InorderFirst ==
    /\ Bounded
    /\ \E parent \in Parents, isvalue \in BOOLEAN, descending \in BOOLEAN :
         /\ ~(isvalue /\ parent = 0)
         /\ LET r == do_avstor_inorder_first(db, parent, isvalue, descending) IN
            /\ db' = r.db
            /\ res' = Result("inorder_first", r.code)
            /\ cursor' = Visit([NoCursor EXCEPT !.open = TRUE,
                                                !.root = TreeRoot(db, parent, isvalue)], r)
    /\ steps' = steps + 1
    /\ UNCHANGED <<committed, env, locks>>

\* avstor_inorder_first with a key: the traversal starts at the key
InorderFirstKey ==
    /\ Bounded
    /\ \E parent \in Parents, isvalue \in BOOLEAN, descending \in BOOLEAN, key \in 1..env.keys :
         /\ ~(isvalue /\ parent = 0)
         /\ LET r == do_avstor_inorder_first_key(db, parent, isvalue, descending, key) IN
            /\ db' = r.db
            /\ res' = [Result("inorder_first", r.code) EXCEPT !.key = key]
            /\ cursor' = Visit([NoCursor EXCEPT !.open = TRUE, !.key = key,
                                                !.root = TreeRoot(db, parent, isvalue)], r)
    /\ steps' = steps + 1
    /\ UNCHANGED <<committed, env, locks>>

InorderNext ==
    /\ Bounded
    /\ cursor.open
    /\ LET r == do_avstor_inorder_next(db, cursor.st) IN
         /\ db' = r.db
         /\ res' = Result("inorder_next", r.code)
         /\ cursor' = Visit(cursor, r)
    /\ steps' = steps + 1
    /\ UNCHANGED <<committed, env, locks>>

\* ------------------------------------------------------- the database lock
\* The threads that use the database lock. lock is rwl_t.lock: 0 free, 2n held
\* shared by n threads, plus 1 while an upgrade is pending, -2 held exclusively.
\* pc[t] is where thread t is: idle, in a call (lock_shared, lock_exclusive),
\* in avcnd_wait (..._wait), holding the lock (shared, exclusive), or holding
\* it shared with the upgrade refused (upgrade_failed).
NumThreads == 3
Threads == 1..NumThreads
store == <<db, res, committed, cursor, steps, env>>

\* rwl->lock & ~1
ClearBit(n) == n - (n % 2)

\* a reading operation or a writing operation is called
Call(t) ==
    /\ pc[t] = "idle"
    /\ \E f \in {"lock_shared", "lock_exclusive"} : pc' = [pc EXCEPT ![t] = f]
    /\ UNCHANGED <<lock, upgraded, store>>

rwl_lock_shared(t) ==
    /\ pc[t] = "lock_shared"
    /\ IF lock < 0 \/ lock % 2 = 1
       THEN pc' = [pc EXCEPT ![t] = "lock_shared_wait"] /\ UNCHANGED lock
       ELSE pc' = [pc EXCEPT ![t] = "shared"] /\ lock' = lock + 2
    /\ UNCHANGED <<upgraded, store>>

rwl_lock_exclusive_early(t) ==
    /\ pc[t] = "lock_exclusive"
    /\ IF lock < 0
       THEN pc' = [pc EXCEPT ![t] = "lock_exclusive_wait"] /\ UNCHANGED lock
       ELSE pc' = [pc EXCEPT ![t] = "exclusive"] /\ lock' = -2
    /\ UNCHANGED <<upgraded, store>>

rwl_lock_exclusive(t) ==
    /\ pc[t] = "lock_exclusive"
    /\ IF lock # 0
       THEN pc' = [pc EXCEPT ![t] = "lock_exclusive_wait"] /\ UNCHANGED lock
       ELSE pc' = [pc EXCEPT ![t] = "exclusive"] /\ lock' = -2
    /\ UNCHANGED <<upgraded, store>>

\* an upgrade that gives the shared lock up and queues for the exclusive one
rwl_upgrade_released(t) ==
    /\ pc[t] \in {"shared", "upgrade"}
    /\ lock' = lock - 2
    /\ pc' = [pc EXCEPT ![t] = "lock_exclusive"]
    /\ UNCHANGED <<upgraded, store>>

\* an upgrade granted at once, whoever else holds the lock
rwl_upgrade_granted(t) ==
    /\ pc[t] \in {"shared", "upgrade"}
    /\ pc' = [pc EXCEPT ![t] = "exclusive"]
    /\ upgraded' = upgraded \cup {t}
    /\ UNCHANGED <<lock, store>>

\* rwl_upgrade by a thread that holds the lock shared, and its loop after
\* avcnd_wait returned
rwl_upgrade(t) ==
    /\ pc[t] \in {"shared", "upgrade"}
    /\ IF pc[t] = "shared" /\ lock % 2 = 1
       THEN pc' = [pc EXCEPT ![t] = "upgrade_failed"] /\ UNCHANGED <<lock, upgraded>>
       ELSE IF ClearBit(lock) # 2 /\ ClearBit(lock) > 0
       THEN /\ pc' = [pc EXCEPT ![t] = "upgrade_wait"]
            /\ lock' = ClearBit(lock) + 1
            /\ UNCHANGED upgraded
       ELSE /\ pc' = [pc EXCEPT ![t] = "exclusive"]
            /\ lock' = IF ClearBit(lock) = 2 THEN -2 ELSE ClearBit(lock)
            /\ upgraded' = upgraded \cup {t}
    /\ UNCHANGED store

\* the call a thread in avcnd_wait goes back to when it is woken
Woken(p) ==
    CASE p = "lock_shared_wait" -> "lock_shared"
      [] p = "lock_exclusive_wait" -> "lock_exclusive"
      [] p = "upgrade_wait" -> "upgrade"
      [] OTHER -> p

\* rwl_release, with the threads its signal or broadcast wakes; a thread whose
\* upgrade was refused goes on to lock again, shared (avstor_delete) or
\* exclusively (rwl_upgrade_or_lock_exclusive)
rwl_release(t) ==
    /\ pc[t] \in {"shared", "exclusive", "upgrade_failed"}
    /\ LET new == IF lock > 1 THEN lock - 2
                  ELSE IF ClearBit(lock) <= -2 THEN lock + 2 ELSE lock
           signal == new # lock /\ new = 3
           broadcast == new # lock /\ new # 3 /\ ClearBit(lock) = -2 /\ ClearBit(new) = 0
       IN  /\ lock' = new
           /\ \E next \in IF pc[t] = "upgrade_failed" THEN {"lock_shared", "lock_exclusive"}
                          ELSE {"idle"} :
                pc' = [u \in Threads |->
                         IF u = t THEN next
                         ELSE IF broadcast /\ pc[u] \in {"lock_shared_wait", "lock_exclusive_wait"}
                         THEN Woken(pc[u])
                         ELSE IF signal /\ pc[u] = "upgrade_wait" THEN Woken(pc[u])
                         ELSE pc[u]]
    /\ upgraded' = upgraded \ {t}
    /\ UNCHANGED store

\* avcnd_wait may return with no signal
Spurious(t) ==
    /\ pc[t] \in {"lock_shared_wait", "lock_exclusive_wait", "upgrade_wait"}
    /\ pc' = [pc EXCEPT ![t] = Woken(pc[t])]
    /\ UNCHANGED <<lock, upgraded, store>>

\* a thread that looks no page up and holds no pin: the page it looks up,
\* the item its scan found free, how far its lookup is, its pins by page
NoLook == [ofs |-> 0, out |-> 0, state |-> "idle", pins |-> [o \in {} |-> 0]]

\* the database just created, for callers with the given universe
Start(e, autosave) ==
    /\ env = e
    /\ db = db_create_file(e.cfg, autosave)
    /\ res = Result("open", "OK")
    /\ committed = do_View(db)
    /\ cursor = NoCursor
    /\ steps = 0
    /\ lock = 0
    /\ pc = [t \in Threads |-> "idle"]
    /\ upgraded = {}
    /\ look = [t \in Threads |-> NoLook]

\* Transactions: a two-item cache row without autosave, one name a level
TxnKeys == 1
TxnSteps == 9
TxnAssoc == 2
TxnPages == 4
NodesPerPage == 2
L2Rows == 1

Init ==
    Start([cfg |-> [l2_len |-> L2Rows, assoc |-> TxnAssoc, npp |-> NodesPerPage,
                    max_pages |-> TxnPages],
           keys |-> TxnKeys, values |-> TxnKeys, levels |-> MaxLevel, steps |-> TxnSteps],
          FALSE)

Next == CreateKey \/ CreateInt32 \/ Delete \/ Find \/ Commit \/ Reopen

Spec == Init /\ [][Next]_vars

Writes == {"create_key", "create_int32", "create_link", "delete"}
Creates == {"create_key", "create_int32", "create_link"}

\* what a process that opens the file now would read
FileView(d) == View(db_open_file(d.cfg, d.file, d.autosave).db)

\* C1: with AUTOSAVE off, after a create that fails with ABORT the database
\* reports the keys and values of the last successful commit.
AbortKeepsCommitted ==
    (res.op \in Creates /\ res.code = "ABORT" /\ ~db.autosave) => View(db) = committed

\* C2: a commit writes nothing that a rollback discarded: after the commit the
\* file holds exactly what the database reported when the commit was called,
\* the committed state with the operations that succeeded since.
CommitWritesNoRolledBack ==
    [][res'.op = "commit" => FileView(db') = View(db)]_vars

\* C3: after every successful create or delete every tree of the store is a
\* binary search tree whose stored balance factors are the height differences
\* and lie in -1..1.
AvlAfterWrite == (res.op \in Writes /\ res.code = "OK") => AllAvl(db)

\* C5: closing the database after a commit and opening the file again reads
\* exactly the keys and values that were committed.
ReopenReadsCommitted ==
    [][(res.op = "commit" /\ res'.op = "open") =>
          res'.code = "OK" /\ View(db') = committed]_vars

\* C9: a write rejected by validation (a delete that returns INVOPER, a create
\* that returns EXISTS) leaves every key and value as it was before the call.
RejectedWriteChangesNothing ==
    [][(\/ res'.op = "delete" /\ res'.code = "INVOPER"
        \/ res'.op \in Creates /\ res'.code = "EXISTS") => View(db') = View(db)]_vars

\* Links: keys with links to keys, with and without autosave
LinkKeys == 2
LinkSteps == 5
InitLinks ==
    \E autosave \in BOOLEAN :
    Start([cfg |-> [l2_len |-> L2Rows, assoc |-> 4, npp |-> 2, max_pages |-> 6],
           keys |-> LinkKeys, values |-> LinkKeys, levels |-> 1, steps |-> LinkSteps],
          autosave)
NextLinks == CreateKey \/ CreateLink \/ Delete \/ Commit
SpecLinks == InitLinks /\ [][NextLinks]_vars

\* The lock: three threads reading, writing and upgrading
Proceed(t) ==
    (rwl_lock_shared(t) \/ rwl_lock_exclusive(t) \/ rwl_upgrade(t) \/ rwl_release(t))
        /\ UNCHANGED look
NextLock == \E t \in Threads : ((Call(t) \/ Spurious(t)) /\ UNCHANGED look) \/ Proceed(t)
SpecLock == Init /\ [][NextLock]_vars
\* the step of a call that is granted the lock
Acquire(t) ==
    (rwl_lock_shared(t) \/ rwl_lock_exclusive(t) \/ rwl_upgrade(t))
        /\ pc'[t] \in {"shared", "exclusive"}
        /\ UNCHANGED look
\* Fair scheduling: a thread that can take a step of its call takes it, and a
\* thread that again and again finds the lock free when it tests it is granted
\* it. No new call is promised, and no return of avcnd_wait without a signal.
SpecLockFair ==
    SpecLock /\ \A t \in Threads : WF_vars(Proceed(t)) /\ SF_vars(Acquire(t))

\* the threads that hold the lock shared, and those that hold it exclusively
SharedHolders == {t \in Threads : pc[t] \in {"shared", "upgrade_wait", "upgrade", "upgrade_failed"}}
ExclusiveHolders == {t \in Threads : pc[t] = "exclusive"}

\* C6: a thread that holds the lock exclusively, by rwl_lock_exclusive or by an
\* upgrade, is the only holder; otherwise every admitted reader holds it, the
\* lock counting two for each.
LockExclusion ==
    /\ \A t \in ExclusiveHolders : ExclusiveHolders = {t} /\ SharedHolders = {} /\ lock = -2
    /\ ExclusiveHolders = {} => ClearBit(lock) = 2 * Cardinality(SharedHolders)

\* a thread holds the lock exclusively by an upgrade while a reader waits
UpgradedAlone ==
    \E t \in upgraded, u \in Threads : pc[t] = "exclusive" /\ pc[u] = "lock_shared_wait"

\* C7: under fair scheduling a thread that waits for the lock, shared,
\* exclusive or for its upgrade, is eventually granted it.
LockGranted ==
    \A t \in Threads :
        /\ pc[t] \in {"lock_shared", "lock_shared_wait"} ~> pc[t] = "shared"
        /\ pc[t] \in {"lock_exclusive", "lock_exclusive_wait"} ~> pc[t] = "exclusive"
        /\ pc[t] \in {"upgrade_wait", "upgrade"} ~> pc[t] = "exclusive"

\* Traversals: root keys on pages of one node, a two-item cache row
ScanKeys == 3
ScanSteps == 7
InitScan ==
    Start([cfg |-> [l2_len |-> L2Rows, assoc |-> TxnAssoc, npp |-> 1, max_pages |-> 5],
           keys |-> ScanKeys, values |-> 0, levels |-> 1, steps |-> ScanSteps], FALSE)
NextScan == CreateKey \/ Delete \/ Commit \/ InorderFirst \/ InorderNext
SpecScan == InitScan /\ [][NextScan]_vars

\* the elements of a set of numbers in ascending order
RECURSIVE Ascending(_)
Ascending(S) ==
    IF S = {} THEN << >>
    ELSE LET m == CHOOSE x \in S : \A y \in S : x <= y IN <<m>> \o Ascending(S \ {m})

\* the names of the tree at root in the order of the traversal
InOrder(d, root, descending) ==
    LET a == Ascending({EffNode(d, o).name : o \in TreeNodes(d, root, Fuel(d))}) IN
    IF descending THEN [i \in 1..Len(a) |-> a[Len(a) + 1 - i]] ELSE a

\* C4: as long as no call of it fails, a traversal begun by inorder_first
\* without a key and continued by inorder_next with no writer in between
\* returns the nodes of the tree one by one in ascending order (in descending
\* order with DESCENDING), and NOTFOUND once all were returned.
CursorVisitsInOrder ==
    (cursor.open /\ ~cursor.failed) =>
        LET all == InOrder(db, cursor.root, cursor.st.descending) IN
        /\ Len(cursor.seen) <= Len(all)
        /\ cursor.seen = SubSeq(all, 1, Len(cursor.seen))
        /\ cursor.code = "NOTFOUND" => Len(cursor.seen) = Len(all)

\* the node named key in the tree of parent that a delete addresses, 0 if none
Named(d, parent, isvalue, key) ==
    LET root == TreeRoot(d, parent, isvalue)
        hits == {o \in TreeNodes(d, root, Fuel(d)) : EffNode(d, o).name = key}
    IN  IF hits = {} THEN 0 ELSE CHOOSE o \in hits : TRUE

\* the live links: the link values the keys of the database hold
Links(d) == {o \in Reach(d, d.hdr.root, MaxLevel) : EffNode(d, o).type = AVSTOR_TYPE_LINK}

\* the entries of the back-link tree as pairs of a target and a link offset
BackLinks(d) ==
    UNION { {[target |-> EffNode(d, k).name, link |-> EffNode(d, e).name] :
                e \in TreeNodes(d, EffNode(d, k).value_root, Fuel(d))} :
            k \in TreeNodes(d, d.hdr.root_links, Fuel(d)) }

BackLinkCount(d) ==
    Cardinality(UNION { {<<k, e>> : e \in TreeNodes(d, EffNode(d, k).value_root, Fuel(d))} :
                        k \in TreeNodes(d, d.hdr.root_links, Fuel(d)) })

\* the code the rules of delete give for the node it names
DeleteCode(d, parent, isvalue, key) ==
    LET t == Named(d, parent, isvalue, key) IN
    IF t = 0 THEN "NOTFOUND"
    ELSE IF \/ /\ EffNode(d, t).type = AVSTOR_TYPE_KEY
               /\ (EffNode(d, t).subkey_root # 0 \/ EffNode(d, t).value_root # 0)
            \/ \E l \in Links(d) : EffNode(d, l).value = t
    THEN "INVOPER"
    ELSE "OK"

\* a delete that names a tree: values are deleted under a key only
TreeDelete(r) == r.op = "delete" /\ ~(r.isvalue /\ r.parent = 0)

\* C8: unless it fails with another error, delete returns INVOPER exactly when
\* the named node is a key with a child key or a value, or is the target of a
\* live link; NOTFOUND when the tree holds no node of that name; and otherwise
\* OK, with the node removed.
DeleteCodesUnlessFailed ==
    [][TreeDelete(res') =>
        \/ res'.code \notin {"OK", "NOTFOUND", "INVOPER"}
        \/ /\ res'.code = DeleteCode(db, res'.parent, res'.isvalue, res'.key)
           /\ res'.code = "OK" => Named(db', res'.parent, res'.isvalue, res'.key) = 0]_vars

\* C10: the back-link tree holds exactly one entry for each live link, under
\* the key of the link's target and named by the link's offset, and no other.
BackLinksMatchLinks ==
    /\ BackLinks(db) = {[target |-> EffNode(db, l).value, link |-> l] : l \in Links(db)}
    /\ BackLinkCount(db) = Cardinality(Links(db))

\* no tree of the database holds two nodes of one name
NamesDistinct(d) ==
    \A root \in TreeRoots(d) :
        \A o1, o2 \in TreeNodes(d, root, Fuel(d)) :
            EffNode(d, o1).name = EffNode(d, o2).name => o1 = o2

\* the names of the keys of the root
RootNames(d) == {v.name : v \in View(d)}

\* C11: a create that names a node its tree already holds fails with EXISTS
\* and inserts nothing: after a create that returned EXISTS the root holds no
\* name that it did not hold before the call.
EqualNameInsertsNothing ==
    [][(res'.op \in Creates /\ res'.code = "EXISTS")
          => RootNames(db') \subseteq RootNames(db)]_vars

\* after a create no tree of the database holds two nodes of one name, and a
\* create that names a node its tree already holds does not succeed
EqualNameRejected ==
    [][res'.op \in Creates =>
        /\ NamesDistinct(db')
        /\ Named(db, res'.parent, res'.isvalue, res'.key) # 0 => res'.code # "OK"]_vars

\* a create was called with a name its tree holds
EqualNameCreated == res.op \in Creates /\ res.code = "EXISTS"

\* The cache under readers: threads that hold the global lock shared look
\* pages up in one row, pin and unpin them; lock is the lock of the row
CacheKeys == 3
CacheSteps == 4
CachePins == 2
CacheThreads == 2

\* the pages of the keys
CachePages == {PAGE_SIZE * n : n \in 1..CacheKeys}

\* the database after n keys were created
RECURSIVE CacheDb(_, _)
CacheDb(d, n) ==
    IF n = 0 THEN d ELSE avstor_create_key(CacheDb(d, n - 1), 0, n).db

\* the file of the keys, created and committed under AUTOSAVE, is opened
InitCache ==
    /\ env = [cfg |-> [l2_len |-> L2Rows, assoc |-> TxnAssoc, npp |-> 1, max_pages |-> 5],
              keys |-> CacheKeys, values |-> 0, levels |-> 1, steps |-> CacheSteps]
    /\ LET d == avstor_commit(CacheDb(db_create_file(env.cfg, TRUE), CacheKeys)).db IN
       db = db_open_file(env.cfg, d.file, TRUE).db
    /\ res = Result("open", "OK")
    /\ committed = View(db)
    /\ cursor = NoCursor
    /\ steps = 0
    /\ lock = 0
    /\ pc = [t \in Threads |-> "idle"]
    /\ upgraded = {}
    /\ look = [t \in Threads |-> NoLook]

\* the pins a thread holds on the page at ofs, and all it holds
Held(t, ofs) == IF ofs \in DOMAIN look[t].pins THEN look[t].pins[ofs] ELSE 0
RECURSIVE SumHeld(_, _)
SumHeld(t, pages) ==
    IF pages = {} THEN 0
    ELSE LET o == CHOOSE x \in pages : TRUE IN Held(t, o) + SumHeld(t, pages \ {o})
HeldPins(t) == SumHeld(t, DOMAIN look[t].pins)

\* the pins of a thread after d more on the page at ofs
Pins(t, ofs, d) ==
    LET n == Held(t, ofs) + d
        dom == IF n = 0 THEN DOMAIN look[t].pins \ {ofs} ELSE DOMAIN look[t].pins \cup {ofs}
    IN  [o \in dom |-> IF o = ofs THEN n ELSE look[t].pins[o]]

\* a reader calls cache_lookup for a page
CacheCall(t) ==
    /\ pc[t] = "idle" /\ Bounded /\ HeldPins(t) < CachePins
    /\ \E ofs \in CachePages :
         look' = [look EXCEPT ![t].ofs = ofs, ![t].out = 0, ![t].state = "call"]
    /\ pc' = [pc EXCEPT ![t] = "lock_shared"]
    /\ steps' = steps + 1
    /\ UNCHANGED <<db, res, committed, cursor, env, lock, upgraded>>

\* rwl_lock_shared(&row->lock)
CacheLock(t) == rwl_lock_shared(t) /\ UNCHANGED look

\* cache_lookup under the shared lock of the row: the scan, and lock_page of
\* the page found
CacheScan(t) ==
    /\ pc[t] = "shared" /\ look[t].state = "call"
    /\ LET r == cache_get_row(db, look[t].ofs)
           sc == cache_lookup_scan_line(db.rows[r], look[t].ofs)
       IN  IF sc.item # 0
           THEN /\ db' = LookupIn(db, r, sc, look[t].ofs, TRUE)
                /\ look' = [look EXCEPT ![t].state = "pinned",
                                         ![t].pins = Pins(t, look[t].ofs, 1)]
                /\ res' = Result("cache_lookup", "found")
           ELSE /\ look' = [look EXCEPT ![t].state = "miss", ![t].out = sc.out]
                /\ UNCHANGED <<db, res>>
    /\ UNCHANGED <<committed, cursor, steps, env, lock, pc, upgraded>>

\* rwl_upgrade_or_release(&row->lock) after a miss: the upgrade
CacheUpgrade(t) == look[t].state = "miss" /\ rwl_upgrade(t) /\ UNCHANGED look

\* cache_lookup under the exclusive lock of the row: the page is loaded into
\* the free item the scan found, else into the item cache_evict frees
CacheLoad(t) ==
    /\ pc[t] = "exclusive" /\ look[t].state = "miss"
    /\ LET r == cache_get_row(db, look[t].ofs)
           d == LookupIn(db, r, [item |-> 0, out |-> look[t].out], look[t].ofs, TRUE)
       IN  /\ db' = [d EXCEPT !.err = "OK"]
           /\ res' = Result("cache_lookup",
                            IF d.err # "OK" THEN d.err
                            ELSE IF look[t].out # 0 THEN "free"
                            ELSE cache_evict(db, r).res)
           /\ look' = IF d.err # "OK" THEN [look EXCEPT ![t].state = "failed"]
                      ELSE [look EXCEPT ![t].state = "pinned",
                                        ![t].pins = Pins(t, look[t].ofs, 1)]
    /\ UNCHANGED <<committed, cursor, steps, env, lock, pc, upgraded>>

\* rwl_release(&row->lock): at the end of cache_lookup, and in
\* rwl_upgrade_or_release, after which the lookup starts again
CacheRelease(t) ==
    /\ pc[t] = "upgrade_failed" \/ look[t].state \in {"pinned", "failed"}
    /\ rwl_release(t)
    /\ pc'[t] # "lock_exclusive"
    /\ look' = [look EXCEPT ![t].state = IF pc[t] = "upgrade_failed" THEN "call" ELSE "idle"]

\* unlock_page by a thread that holds a pin
CacheUnpin(t) ==
    /\ pc[t] = "idle"
    /\ \E ofs \in DOMAIN look[t].pins :
         /\ db' = [unlock_page(db, ofs) EXCEPT !.err = "OK"]
         /\ look' = [look EXCEPT ![t].pins = Pins(t, ofs, -1)]
    /\ UNCHANGED <<res, committed, cursor, steps, env, lock, pc, upgraded>>

\* lock_ref by a thread that holds a pin on the page
CachePin(t) ==
    /\ pc[t] = "idle" /\ HeldPins(t) < CachePins
    /\ \E ofs \in DOMAIN look[t].pins :
         /\ db' = [lock_page(db, ofs) EXCEPT !.err = "OK"]
         /\ look' = [look EXCEPT ![t].pins = Pins(t, ofs, 1)]
    /\ UNCHANGED <<res, committed, cursor, steps, env, lock, pc, upgraded>>

CacheWake(t) == Spurious(t) /\ UNCHANGED look

NextCache ==
    \E t \in 1..CacheThreads :
        \/ CacheCall(t) \/ CacheLock(t) \/ CacheScan(t) \/ CacheUpgrade(t) \/ CacheLoad(t)
        \/ CacheRelease(t) \/ CacheUnpin(t) \/ CachePin(t) \/ CacheWake(t)
SpecCache == InitCache /\ [][NextCache]_vars

\* the items of the cache that map a page
Mapped(d) ==
    {rc \in UNION {{<<r, c>> : c \in 1..d.rows[r].capacity} : r \in DOMAIN d.rows} :
        d.rows[rc[1]].items[rc[2]].page # NoPage /\ d.rows[rc[1]].items[rc[2]].offset # 0}

\* the pins the threads ts hold on the page at ofs
RECURSIVE PinsOn(_, _)
PinsOn(ofs, ts) ==
    IF ts = {} THEN 0
    ELSE LET t == CHOOSE x \in ts : TRUE IN Held(t, ofs) + PinsOn(ofs, ts \ {t})

\* every page a thread holds a pin on is mapped, by a frame whose pin count
\* is the number of pins the threads hold on it
PinsCounted ==
    \A ofs \in CachePages :
        LET n == PinsOn(ofs, Threads) IN
        n > 0 => \E rc \in Mapped(db) :
                    LET it == db.rows[rc[1]].items[rc[2]] IN
                    it.offset = ofs /\ it.page.page_offset = ofs /\ it.page.lock_count = n

\* C12: a frame whose pin count is greater than 0 is not evicted and not
\* mapped to another offset by any step of concurrent lookups, pins and
\* unpins: its item maps the same page after the step, and the pages the
\* threads hold pins on stay mapped with those pins counted.
PinnedNeverEvicted ==
    [][/\ \A rc \in Mapped(db) :
            LET it == db.rows[rc[1]].items[rc[2]]
                it2 == db'.rows[rc[1]].items[rc[2]]
            IN  it.page.lock_count > 0 =>
                    it2.offset = it.offset /\ it2.page.page_offset = it.page.page_offset
       /\ PinsCounted']_vars

\* a lookup evicted a page while another page of the row was pinned
EvictedBesidePinned ==
    /\ res.op = "cache_lookup" /\ res.code = "evict_success"
    /\ \E t, u \in Threads, ofs \in CachePages :
         /\ pc[t] = "exclusive" /\ look[t].state = "pinned"
         /\ ofs # look[t].ofs /\ Held(u, ofs) > 0

\* Autosave: root keys on pages of one node, a two-item cache row that
\* evicts dirty pages to the file
AutoKeys == 3
AutoSteps == 6
InitAuto ==
    Start([cfg |-> [l2_len |-> L2Rows, assoc |-> TxnAssoc, npp |-> 1, max_pages |-> 5],
           keys |-> AutoKeys, values |-> 0, levels |-> 1, steps |-> AutoSteps], TRUE)
NextAuto == CreateKey \/ Delete \/ Commit
SpecAuto == InitAuto /\ [][NextAuto]_vars

\* C13: under AUTOSAVE a create or a delete that fails with an error (one that
\* is raised in the call, not the NOTFOUND or PARAM it returns without a
\* rollback) leaves the database in the state of the last successful commit:
\* the keys and values it reports, and those a process that opens the file
\* reads, are the committed ones.
FailedWriteKeepsCommitted ==
    [][(res'.op \in Writes /\ res'.code \notin {"OK", "NOTFOUND", "PARAM"} /\ db.autosave)
          => View(db') = committed /\ FileView(db') = committed]_vars

\* Commits on a file whose writes fail: root keys on pages of one node
IoKeys == 2
IoSteps == 5
InitIo ==
    Start([cfg |-> [l2_len |-> L2Rows, assoc |-> TxnAssoc, npp |-> 1, max_pages |-> 5],
           keys |-> IoKeys, values |-> 0, levels |-> 1, steps |-> IoSteps], FALSE)
NextIo == CreateKey \/ Delete \/ CommitIo
SpecIo == InitIo /\ [][NextIo]_vars

\* the dirty pages of the cache as a commit finds them: the frames of a row up
\* to its first item without one, and the header (row -1)
DirtyFrames(d) ==
    {[row |-> r, col |-> c, ofs |-> d.rows[r].items[c].page.page_offset] :
        <<r, c>> \in {rc \in UNION {{<<r, c>> : c \in 1..(FirstEmpty(d.rows[r]) - 1)} : r \in DOMAIN d.rows} :
                        is_page_dirty(d.rows[rc[1]].items[rc[2]].page)}}
    \cup (IF is_page_dirty(d.hdr) THEN {[row |-> -1, col |-> 0, ofs |-> 0]} ELSE {})

Range(seq) == {seq[i] : i \in 1..Len(seq)}

\* C14: a commit writes the dirty data pages before the header and the header
\* last; when it returns OK every dirty page was written and the shadow header
\* is the header written; when a write or the flush fails the shadow header
\* is unchanged and the page whose write failed, like every page not yet
\* written, is dirty.
CommitWritesHeaderLast ==
    [][res'.op = "commit" =>
        LET w == res'.written IN
        /\ \A i \in 1..Len(w) : w[i].row = -1 => i = Len(w)
        /\ DirtyFrames(db') = DirtyFrames(db) \ Range(w)
        /\ Range(w) \subseteq DirtyFrames(db)
        /\ IF res'.code = "OK"
           THEN DirtyFrames(db') = {} /\ db'.old = db'.hdr
           ELSE db'.old = db.old /\ res'.code = "IOERR"]_vars

\* a commit failed in the write of a data page after it had written another
CommitFailedMidway ==
    /\ res.op = "commit" /\ res.code = "IOERR" /\ Len(res.written) > 0
    /\ \E f \in DirtyFrames(db) : f.row >= 0

\* Deletes among writers: threads delete and create root keys under the
\* global lock, a delete looking its node up under the shared lock
DelKeys == 2
DelSteps == 4
InitDel ==
    Start([cfg |-> [l2_len |-> L2Rows, assoc |-> 4, npp |-> 2, max_pages |-> 4],
           keys |-> DelKeys, values |-> 0, levels |-> 1, steps |-> DelSteps], FALSE)

Calling(op, key) ==
    [op |-> op, key |-> key, state |-> "call", cur |-> 0, st |-> NewStack(NullPtr), seen |-> {},
     again |-> FALSE]

\* avstor_delete and avstor_create_key are called
DelCall(t) ==
    /\ pc[t] = "idle" /\ Bounded
    /\ \E key \in 1..env.keys :
         \/ /\ look' = [look EXCEPT ![t] = Calling("delete", key)]
            /\ pc' = [pc EXCEPT ![t] = "lock_shared"]
         \/ /\ look' = [look EXCEPT ![t] = Calling("create_key", key)]
            /\ pc' = [pc EXCEPT ![t] = "lock_exclusive"]
    /\ steps' = steps + 1
    /\ UNCHANGED <<db, res, committed, cursor, env, lock, upgraded>>

DelLock(t) == (rwl_lock_shared(t) \/ rwl_lock_exclusive(t) \/ Spurious(t)) /\ UNCHANGED look

\* avstor_delete under the shared lock
DelLookup(t) ==
    /\ pc[t] = "shared" /\ look[t].state = "call"
    /\ LET f == do_delete_lookup(db, look[t].key) IN
       /\ db' = [f.db EXCEPT !.err = "OK"]
       /\ IF f.code = "OK"
          THEN /\ look' = [look EXCEPT ![t].state = "found", ![t].cur = f.cur,
                                       ![t].st = f.st, ![t].seen = do_View(db)]
               /\ UNCHANGED res
          ELSE /\ look' = [look EXCEPT ![t].state = "done"]
               /\ res' = [Result("delete", f.code) EXCEPT !.key = look[t].key]
    /\ UNCHANGED <<committed, cursor, steps, env, lock, pc, upgraded>>

\* rwl_upgrade(&db->global_rwl) by the delete that found its node
DelUpgrade(t) == look[t].state = "found" /\ rwl_upgrade(t) /\ UNCHANGED look

\* the upgrade was refused: the pin of the node is released and the delete
\* starts again
DelUnpin(t) ==
    /\ pc[t] = "upgrade_failed" /\ look[t].state = "found"
    /\ db' = do_unlock_ptr(db, look[t].cur)
    /\ look' = [look EXCEPT ![t] = [Calling("delete", look[t].key) EXCEPT !.again = TRUE]]
    /\ UNCHANGED <<res, committed, cursor, steps, env, lock, pc, upgraded>>

\* avstor_delete under the exclusive lock
DelRemove(t) ==
    /\ pc[t] = "exclusive" /\ look[t].state = "found"
    /\ LET r == do_delete_remove(db, look[t].cur, look[t].st) IN
       /\ db' = r.db
       /\ res' = [Result("delete", r.code) EXCEPT !.key = look[t].key]
    /\ look' = [look EXCEPT ![t].state = "done"]
    /\ UNCHANGED <<committed, cursor, steps, env, lock, pc, upgraded>>

\* avstor_create_key under the exclusive lock
DelCreate(t) ==
    /\ pc[t] = "exclusive" /\ look[t].op = "create_key" /\ look[t].state = "call"
    /\ LET r == do_avstor_create_key(db, 0, look[t].key) IN
       /\ db' = r.db
       /\ res' = [Result("create_key", r.code) EXCEPT !.key = look[t].key]
    /\ look' = [look EXCEPT ![t].state = "done"]
    /\ UNCHANGED <<committed, cursor, steps, env, lock, pc, upgraded>>

\* rwl_release(&db->global_rwl) at the end of a call and before a delete
\* starts again
DelRelease(t) ==
    /\ look[t].state = IF pc[t] = "upgrade_failed" THEN "call" ELSE "done"
    /\ rwl_release(t)
    /\ pc'[t] # "lock_exclusive"
    /\ UNCHANGED look

NextDel ==
    \E t \in Threads :
        \/ DelCall(t) \/ DelLock(t) \/ DelLookup(t) \/ DelUpgrade(t) \/ DelUnpin(t)
        \/ DelRemove(t) \/ DelCreate(t) \/ DelRelease(t)
SpecDel == InitDel /\ [][NextDel]_vars

\* the deletes that found their node and have not yet removed it
Deleting == {t \in Threads : look[t].state = "found"}

\* the pins on the frames of the cache
RECURSIVE PinsOfRow(_, _)
PinsOfRow(line, c) ==
    IF c > line.capacity \/ line.items[c].page = NoPage THEN 0
    ELSE line.items[c].page.lock_count + PinsOfRow(line, c + 1)
RECURSIVE PinsOfRows(_, _)
PinsOfRows(d, r) == IF r >= d.cfg.l2_len THEN 0 ELSE PinsOfRow(d.rows[r], 1) + PinsOfRows(d, r + 1)

\* C15: a delete removes its node on a lookup that is still valid: from the
\* lookup under the shared lock to the removal under the upgraded lock the
\* database holds what the lookup saw and the node found is the node of that
\* name, the removal returns OK and leaves the tree without the name; a delete
\* whose upgrade is refused releases its pin before it starts again, so the
\* pins are those of the deletes that found their node.
DeleteOnValidLookup ==
    [][/\ \A t \in Deleting :
            /\ View(db) = look[t].seen
            /\ Named(db, 0, FALSE, look[t].key) = look[t].cur
            /\ look'[t].state = "done" =>
                 /\ pc[t] = "exclusive" /\ res'.code = "OK"
                 /\ Named(db', 0, FALSE, look[t].key) = 0
                 /\ View(db') = View(db) \ {v \in View(db) : v.name = look[t].key}
       /\ \A t \in Threads : (pc[t] = "upgrade_failed" /\ pc'[t] = "lock_shared") =>
            PinsOfRows(db, 0) = Cardinality(Deleting)]_vars

\* a delete removes its node under the upgraded lock while another delete,
\* whose upgrade was refused, waits to start again
DeleteAfterRefusedUpgrade ==
    \E t, u \in Threads :
        /\ pc[t] = "exclusive" /\ look[t].op = "delete" /\ look[t].state = "done"
        /\ res.op = "delete" /\ res.code = "OK"
        /\ pc[u] \in {"lock_shared", "lock_shared_wait"}
        /\ look[u].again /\ look[u].state = "call"

\* Traversals from a key, in the universe of the traversals
NextSeek == CreateKey \/ Commit \/ InorderFirstKey \/ InorderNext
SpecSeek == InitScan /\ [][NextSeek]_vars

\* the names a traversal from key has to return: those not before key
FromKey(names, key, descending) ==
    SelectSeq(names, LAMBDA n : IF descending THEN n <= key ELSE n >= key)

\* C16: as long as no call of it fails, a traversal begun by inorder_first
\* with a key and continued by inorder_next with no writer in between returns
\* the node of that name, or else the next greater one (the next smaller one
\* with DESCENDING), then the nodes after it in order, and NOTFOUND when there
\* is none left.
CursorSeeksKey ==
    (cursor.open /\ ~cursor.failed /\ cursor.key # 0) =>
        LET all == FromKey(InOrder(db, cursor.root, cursor.st.descending), cursor.key,
                           cursor.st.descending)
        IN  /\ Len(cursor.seen) <= Len(all)
            /\ cursor.seen = SubSeq(all, 1, Len(cursor.seen))
            /\ cursor.code = "NOTFOUND" => Len(cursor.seen) = Len(all)
            /\ cursor.code = "OK" => Len(cursor.seen) > 0

\* --------------------------------------------------- the bytes of a page
\* The operators below model a data page to the byte: the slots of its index,
\* the top of its free space and the size, the name and the value bytes of its
\* nodes.  The database they work on has its header page and one data page
\* (the file may hold no more), holding a key and the subkeys and the values
\* of that key; the trees of these nodes are searched by name.
MAX_KEY_LEN == 240
MAX_BINARY_LEN == 250
MAX_STRING_LEN == 250
\* offsetof(AvNode, name) with 32-bit offsets
SIZE_NODE_HDR == 13
AVSTOR_TYPE_STRING == 4
AVSTOR_TYPE_BINARY == 5

\* NODE_CLASS[type].szdata
NodeClassSize(type) ==
    CASE type = AVSTOR_TYPE_KEY -> 12
      [] type = AVSTOR_TYPE_INT32 -> 4
      [] type \in {AVSTOR_TYPE_STRING, AVSTOR_TYPE_BINARY} -> 1
      [] type = AVSTOR_TYPE_LINK -> 4
      [] OTHER -> 0

align_node(sz) == ((sz + 3) \div 4) * 4

Zeros(n) == [i \in 1..n |-> 0]

\* the page create_page leaves: no slot, no node, all of it free
NewBytePage == [top |-> PAGE_SIZE, index_freelist |-> INVALID_INDEX, slots |-> << >>,
                nodes |-> [o \in {} |-> 0]]

get_page_free_bytes(page) ==
    LET bottom == align_node(INDEX_BASE + 2 * Len(page.slots)
                             + (IF page.index_freelist = INVALID_INDEX THEN 2 ELSE 0))
    IN  IF page.top > bottom THEN page.top - bottom ELSE 0

\* get_node: the offset in the page of the node of a reference, 0 if deleted
get_node_bytes(page, index) == page.slots[SlotNum(index)]

\* the references of the nodes of a page
Refs(page) == {SlotOfs(s) : s \in {i \in 1..Len(page.slots) : page.slots[i] # INVALID_INDEX}}

\* the node of a reference
NodeOf(page, ref) == page.nodes[get_node_bytes(page, ref)]

\* the function f with the value v at x, x in its domain or not
Put(f, x, v) == [y \in DOMAIN f \cup {x} |-> IF y = x THEN v ELSE f[y]]

\* alloc_node: [page, ref, code]; size bytes taken from the top of the free
\* space of the preferred page, with a new slot.  A node that does not fit
\* needs a new page, and the file may hold no more.
alloc_node_bytes(page, size) ==
    IF size > get_page_free_bytes(page) THEN [page |-> page, ref |-> 0, code |-> "INVOPER"]
    ELSE LET top == page.top - size
             s == Len(page.slots) + 1
         IN  [page |-> [page EXCEPT !.top = top, !.slots = Append(@, top),
                                    !.nodes = Put(@, top, [index |-> SlotOfs(s), size |-> size])],
              ref |-> SlotOfs(s), code |-> "OK"]

\* the name create_node copies into the zeroed bytes of a node
NameBytes(key, szname) == SubSeq(key.buf, 1, key.len) \o Zeros(szname - key.len)

\* create_node: [page, ref, code]; the node has its type, its name and the
\* zeroed bytes of its value
create_node_bytes(page, key, szvalue, type) ==
    LET data_ofs == align_node(SIZE_NODE_HDR + key.len)
        node_size == align_node(data_ofs + NodeClassSize(type) + szvalue)
        a == alloc_node_bytes(page, node_size)
        szname == (data_ofs - SIZE_NODE_HDR) % 256
    IN  IF a.code # "OK" THEN a
        ELSE [a EXCEPT !.page.nodes[a.page.top] =
                  [index |-> @.index, size |-> @.size, type |-> type, szname |-> szname,
                   name |-> NameBytes(key, szname), length |-> 0, level |-> 0, tree |-> 0,
                   data |-> Zeros(node_size - data_ofs - NodeClassSize(type))]]

is_invalid_avstor_key(key) == key.len > MAX_KEY_LEN

\* the comparer of the callers: their names are records told apart by the
\* first byte
ByteComparer(buf, name) ==
    IF buf[1] < name[1] THEN -1 ELSE IF buf[1] > name[1] THEN 1 ELSE 0

\* find_node_with_backtrace: a node of the tree equal to the key
FoundIn(page, tree, key) ==
    \E o \in DOMAIN page.nodes : /\ page.nodes[o].tree = tree
                                 /\ ByteComparer(key.buf, page.nodes[o].name) = 0

\* lock_keyref, lock_valueref: the code thrown for a reference
RefCode(page, ref, type) ==
    IF ref = 0 THEN "PARAM"
    ELSE IF get_node_bytes(page, ref) = INVALID_INDEX THEN "INVOPER"
    ELSE IF NodeOf(page, ref).type # type THEN "MISMATCH"
    ELSE "OK"

\* avstor_create_key: [page, ref, code]; parent is 0 for a key of the root
avstor_create_key_bytes(page, parent, key) ==
    IF is_invalid_avstor_key(key) THEN [page |-> page, ref |-> 0, code |-> "PARAM"]
    ELSE IF parent # 0 /\ RefCode(page, parent, AVSTOR_TYPE_KEY) # "OK"
    THEN [page |-> page, ref |-> 0, code |-> RefCode(page, parent, AVSTOR_TYPE_KEY)]
    ELSE IF FoundIn(page, <<parent, "subkeys">>, key)
    THEN [page |-> page, ref |-> 0, code |-> "EXISTS"]
    ELSE LET c == create_node_bytes(page, key, 0, AVSTOR_TYPE_KEY) IN
         IF c.code # "OK" THEN c
         ELSE [c EXCEPT !.page.nodes[c.page.top].level =
                            IF parent = 0 THEN 1 ELSE NodeOf(page, parent).level + 1,
                        !.page.nodes[c.page.top].tree = <<parent, "subkeys">>]

\* create_var_value: [page, ref, code]; valuesz bytes of value are the value
create_var_value(page, parent, key, value, valuesz, type) ==
    IF is_invalid_avstor_key(key) THEN [page |-> page, ref |-> 0, code |-> "PARAM"]
    ELSE IF RefCode(page, parent, AVSTOR_TYPE_KEY) # "OK"
    THEN [page |-> page, ref |-> 0, code |-> RefCode(page, parent, AVSTOR_TYPE_KEY)]
    ELSE IF FoundIn(page, <<parent, "values">>, key)
    THEN [page |-> page, ref |-> 0, code |-> "EXISTS"]
    ELSE LET c == create_node_bytes(page, key, valuesz, type) IN
         IF c.code # "OK" THEN c
         ELSE [c EXCEPT !.page.nodes[c.page.top].length = valuesz % 256,
                        !.page.nodes[c.page.top].tree = <<parent, "values">>,
                        !.page.nodes[c.page.top].data =
                            SubSeq(value, 1, valuesz) \o SubSeq(@, valuesz + 1, Len(@))]

\* strlen_l: the offset of the first NUL among the first szbuf bytes, or szbuf
strlen_l(str, szbuf) ==
    LET nul == {i \in 1..szbuf : i <= Len(str) /\ str[i] = 0} IN
    IF nul = {} THEN szbuf
    ELSE (CHOOSE i \in nul : \A j \in nul : i <= j) - 1

avstor_create_string(page, parent, key, value) ==
    LET len == strlen_l(value, MAX_STRING_LEN + 1) + 1 IN
    IF len = MAX_STRING_LEN + 1 THEN [page |-> page, ref |-> 0, code |-> "PARAM"]
    ELSE create_var_value(page, parent, key, value, len, AVSTOR_TYPE_STRING)

\* the node at ofs with its slot and its bytes moved up by delta
Moved(page, ofs, delta) ==
    [page EXCEPT !.slots[SlotNum(page.nodes[ofs].index)] = @ + delta]

RECURSIVE MoveSlots(_, _, _)
MoveSlots(page, below, delta) ==
    IF below = {} THEN page
    ELSE LET o == CHOOSE x \in below : TRUE IN
         MoveSlots(Moved(page, o, delta), below \ {o}, delta)

\* resize_node to a size other than 0: [page, code]; the nodes from the top
\* of the free space to the node move by the difference of the sizes, the node
\* keeps the first bytes of its value or gains zeroed ones, and the slots of
\* the nodes that moved follow them
resize_node(page, ofs, newsize) ==
    LET node == page.nodes[ofs]
        oldsize == node.size
        delta == oldsize - newsize
        below == {o \in DOMAIN page.nodes : o <= ofs}
        area == Len(node.data) - delta
        resized == [node EXCEPT !.size = newsize,
                                !.data = IF newsize < oldsize THEN SubSeq(@, 1, area)
                                         ELSE @ \o Zeros(newsize - oldsize)]
        nodes == [o \in ((DOMAIN page.nodes) \ below) \cup {b + delta : b \in below} |->
                      IF o = ofs + delta THEN resized
                      ELSE IF o - delta \in below THEN page.nodes[o - delta]
                      ELSE page.nodes[o]]
    IN  IF newsize = oldsize THEN [page |-> page, code |-> "OK"]
        ELSE IF newsize > oldsize /\ newsize - oldsize > get_page_free_bytes(page)
        THEN [page |-> page, code |-> "INTERNAL"]
        ELSE [page |-> [MoveSlots(page, below, delta) EXCEPT !.nodes = nodes,
                                                             !.top = page.top + delta],
              code |-> "OK"]

\* the value of the node of ref set to the first szbuf bytes of buf
SetValue(page, ref, buf, szbuf) ==
    [page EXCEPT !.nodes[get_node_bytes(page, ref)].length = szbuf % 256,
                 !.nodes[get_node_bytes(page, ref)].data =
                     SubSeq(buf, 1, szbuf) \o SubSeq(@, szbuf + 1, Len(@))]

\* update_var_value: [page, code]
update_var_value(page, value, buf, szbuf, type) ==
    IF RefCode(page, value, type) # "OK"
    THEN [page |-> page, code |-> RefCode(page, value, type)]
    ELSE LET node == NodeOf(page, value)
             r == IF szbuf # node.length
                  THEN resize_node(page, get_node_bytes(page, value),
                                   align_node(SIZE_NODE_HDR + node.szname
                                              + NodeClassSize(type) + szbuf))
                  ELSE [page |-> page, code |-> "OK"]
         IN  IF r.code # "OK" THEN r
             ELSE [page |-> SetValue(r.page, value, buf, szbuf), code |-> "OK"]

avstor_update_string(page, value, new_value) ==
    LET len == strlen_l(new_value, MAX_STRING_LEN + 1) + 1 IN
    IF len = MAX_STRING_LEN + 1 THEN [page |-> page, code |-> "PARAM"]
    ELSE update_var_value(page, value, new_value, len, AVSTOR_TYPE_STRING)

\* get_var_value: [code, buf, out_bytes, out_length]; buf is what was copied
get_var_value(page, value, szbuf, type) ==
    IF RefCode(page, value, type) # "OK"
    THEN [code |-> RefCode(page, value, type), buf |-> << >>, out_bytes |-> 0, out_length |-> 0]
    ELSE LET node == NodeOf(page, value)
             bytes_copied == IF node.length > szbuf THEN szbuf ELSE node.length
         IN  [code |-> "OK", buf |-> SubSeq(node.data, 1, bytes_copied),
              out_bytes |-> bytes_copied, out_length |-> node.length]

\* avstor_get_string: [code, buf, out_length]; buf is the buffer up to and
\* with the NUL the call puts
avstor_get_string(page, value, szbuf) ==
    LET g == get_var_value(page, value, szbuf, AVSTOR_TYPE_STRING)
        out_bytes == IF g.out_bytes = szbuf THEN szbuf - 1 ELSE g.out_bytes
    IN  IF g.code # "OK" THEN [code |-> g.code, buf |-> << >>, out_length |-> 0]
        ELSE [code |-> "OK",
              buf |-> IF szbuf > 0 THEN SubSeq(g.buf, 1, out_bytes) \o <<0>> ELSE << >>,
              out_length |-> g.out_length - 1]

\* avstor_get_name: [code, buf]; buf is the buffer of the key after the call
avstor_get_name(page, value, key) ==
    IF value = 0 THEN [code |-> "PARAM", buf |-> key.buf]
    ELSE IF get_node_bytes(page, value) = INVALID_INDEX
    THEN [code |-> "INVOPER", buf |-> key.buf]
    ELSE LET szname == NodeOf(page, value).szname IN
         IF szname > key.len THEN [code |-> "PARAM", buf |-> key.buf]
         ELSE [code |-> "OK",
               buf |-> NodeOf(page, value).name \o SubSeq(key.buf, szname + 1, Len(key.buf))]

\* ------------------------------------------------- values and names, bytes
\* the calls of a run, the values of 249 characters the page holds at the
\* start, if any, and the size of the buffers of the readers
VarSteps == 3
VarFill == 14
VarBuf == 256
\* the lengths of the keys and of the strings of the callers
KeyLens == {0, 3, 4, MAX_KEY_LEN, MAX_KEY_LEN + 1}
StrLens == {1, MAX_STRING_LEN - 1, MAX_STRING_LEN, MAX_STRING_LEN + 1}

\* the key of a caller: len bytes, the first of them id
ByteKey(id, len) ==
    [buf |-> [i \in 1..(IF len = 0 THEN 1 ELSE len) |-> IF i = 1 THEN id ELSE 7], len |-> len]

\* the string of n characters c, with its NUL
CString(n, c) == [i \in 1..(n + 1) |-> IF i <= n THEN c ELSE 0]

\* the page with n more values of MAX_STRING_LEN - 1 characters below parent
RECURSIVE Filled(_, _, _)
Filled(page, parent, n) ==
    IF n = 0 THEN page
    ELSE avstor_create_string(Filled(page, parent, n - 1), parent, ByteKey(100 + n, 3),
                              CString(MAX_STRING_LEN - 1, 9)).page

\* the database holds one key of the root; db.given is, by reference, the
\* key bytes each node was created with
InitVar ==
    /\ \E fill \in {0, VarFill} :
         LET k == avstor_create_key_bytes(NewBytePage, 0, ByteKey(1, 3)) IN
         db = [page |-> Filled(k.page, k.ref, fill), parent |-> k.ref,
               given |-> [r \in {k.ref} |-> SubSeq(ByteKey(1, 3).buf, 1, 3)]]
    /\ env = [steps |-> VarSteps]
    /\ res = Result("open", "OK")
    /\ committed = {}
    /\ cursor = NoCursor
    /\ steps = 0
    /\ lock = 0
    /\ pc = [t \in Threads |-> "idle"]
    /\ upgraded = {}
    /\ look = [t \in Threads |-> NoLook]

\* a call on the bytes of the page ran
Called ==
    /\ steps' = steps + 1
    /\ UNCHANGED <<env, committed, cursor, locks>>

\* the database after a create that returned r with the key it was given
Created(r, key) ==
    IF r.code # "OK" THEN db
    ELSE [db EXCEPT !.page = r.page,
                    !.given = Put(@, r.ref, SubSeq(key.buf, 1, key.len))]

\* the references of the nodes of a type
RefsOf(page, type) == {r \in Refs(page) : NodeOf(page, r).type = type}

\* A create that fails for another reason than its parameters rolls the
\* transaction back: the callers here give new names and nodes that fit.
VarCreateKey ==
    /\ Bounded
    /\ \E len \in KeyLens :
         LET key == ByteKey(2 + steps, len)
             r == avstor_create_key_bytes(db.page, db.parent, key)
         IN  /\ r.code \in {"OK", "PARAM"}
             /\ db' = Created(r, key)
             /\ res' = [op |-> "create_key", code |-> r.code, node |-> r.ref, keylen |-> len]
    /\ Called

VarCreateString ==
    /\ Bounded
    /\ \E len \in KeyLens, n \in StrLens :
         LET key == ByteKey(2 + steps, len)
             r == avstor_create_string(db.page, db.parent, key, CString(n, 1 + steps))
         IN  /\ r.code \in {"OK", "PARAM"}
             /\ db' = Created(r, key)
             /\ res' = [op |-> "create_string", code |-> r.code, node |-> r.ref,
                        keylen |-> len, n |-> n]
    /\ Called

VarUpdateString ==
    /\ Bounded
    /\ \E value \in RefsOf(db.page, AVSTOR_TYPE_STRING) \ {SlotOfs(s) : s \in 2..(VarFill + 1)},
          n \in StrLens :
         LET r == avstor_update_string(db.page, value, CString(n, 1 + steps)) IN
         /\ db' = [db EXCEPT !.page = r.page]
         /\ res' = [op |-> "update_string", code |-> r.code, node |-> value, n |-> n,
                    value |-> CString(n, 1 + steps)]
    /\ Called

VarGetString ==
    /\ Bounded
    /\ \E value \in Refs(db.page) \ {SlotOfs(s) : s \in 2..(VarFill + 1)}, szbuf \in {0, 4, VarBuf} :
         LET r == avstor_get_string(db.page, value, szbuf) IN
         res' = [op |-> "get_string", code |-> r.code, node |-> value, szbuf |-> szbuf,
                 buf |-> r.buf, out_length |-> r.out_length]
    /\ UNCHANGED db
    /\ Called

VarGetName ==
    /\ Bounded
    /\ \E value \in Refs(db.page) \ {SlotOfs(s) : s \in 2..(VarFill + 1)}, more \in {0, 3} :
         LET len == Len(db.given[value]) + more
             r == avstor_get_name(db.page, value, [buf |-> [i \in 1..len |-> 255], len |-> len])
         IN  res' = [op |-> "get_name", code |-> r.code, node |-> value, len |-> len,
                     buf |-> r.buf]
    /\ UNCHANGED db
    /\ Called

NextVar == VarCreateKey \/ VarCreateString \/ VarUpdateString \/ VarGetString \/ VarGetName
SpecVar == InitVar /\ [][NextVar]_vars

\* the nodes of the page lie one after the other from the top of the free
\* space to the end of the page, each at the offset its slot gives
PageLaidOut(page) ==
    /\ \A s \in 1..Len(page.slots) :
          /\ page.slots[s] \in DOMAIN page.nodes
          /\ page.nodes[page.slots[s]].index = SlotOfs(s)
    /\ \A o \in DOMAIN page.nodes :
          \/ o + page.nodes[o].size = PAGE_SIZE
          \/ o + page.nodes[o].size \in DOMAIN page.nodes
    /\ page.nodes = [o \in {} |-> 0] \/ page.top \in DOMAIN page.nodes
    /\ \A o \in DOMAIN page.nodes : o >= page.top

PagesLaidOut == PageLaidOut(db.page)

\* the characters of a string: its bytes before the first NUL
Chars(str) == SubSeq(str, 1, strlen_l(str, Len(str)))

\* what a caller reads from avstor_get_string: the code, the characters in
\* its buffer and the length
StringRead(g) == [code |-> g.code, chars |-> Chars(g.buf), out_length |-> g.out_length]

\* C17: an update of a string value with a string of a permitted length,
\* shorter than, as long as or longer than the value it has, returns OK, and
\* the get after it returns the new string and its length.
UpdateThenGet ==
    (res.op = "update_string" /\ res.n < MAX_STRING_LEN) =>
        /\ res.code = "OK"
        /\ StringRead(avstor_get_string(db.page, res.node, VarBuf)) =
               [code |-> "OK", chars |-> Chars(res.value), out_length |-> res.n]

\* an update that returned OK is read back, with its length
UpdatedValueRead ==
    (res.op = "update_string" /\ res.n < MAX_STRING_LEN /\ res.code = "OK") =>
        StringRead(avstor_get_string(db.page, res.node, VarBuf)) =
            [code |-> "OK", chars |-> Chars(res.value), out_length |-> res.n]

\* an update grew a value, and one shrank a value, in a page with other nodes
ValueResized ==
    /\ res.op = "update_string" /\ res.code = "OK"
    /\ \E o \in DOMAIN db.page.nodes : o < get_node_bytes(db.page, res.node)

\* C18: a create returns PARAM for a key of length 0 and for a key longer
\* than MAX_KEY_LEN bytes, and accepts a key of 1 to MAX_KEY_LEN bytes.
KeyLengthChecked ==
    res.op \in {"create_key", "create_string"} =>
        /\ res.keylen \notin 1..MAX_KEY_LEN => res.code = "PARAM"
        /\ (res.keylen \in 1..MAX_KEY_LEN /\ (res.op = "create_string" => res.n < MAX_STRING_LEN))
               => res.code = "OK"

\* a create returns PARAM for a key longer than MAX_KEY_LEN bytes, and for no
\* shorter key
LongKeyRejected ==
    res.op = "create_key" => (res.code = "PARAM" <=> res.keylen > MAX_KEY_LEN)

\* C19: create_string and update_string return PARAM for a string of
\* MAX_STRING_LEN characters or more, and no string value holds more than
\* MAX_STRING_LEN bytes with its NUL.
StringLengthChecked ==
    /\ res.op \in {"create_string", "update_string"} =>
          /\ res.n >= MAX_STRING_LEN => res.code = "PARAM"
          /\ (res.op = "create_string" /\ res.n < MAX_STRING_LEN /\ res.keylen <= MAX_KEY_LEN)
                 => res.code = "OK"
    /\ \A r \in RefsOf(db.page, AVSTOR_TYPE_STRING) : NodeOf(db.page, r).length <= MAX_STRING_LEN

\* C20: get_name with a buffer as long as the key a node was created with,
\* of 1 to MAX_KEY_LEN bytes, returns OK and the bytes of that key.
NameReadBack ==
    (res.op = "get_name" /\ res.len = Len(db.given[res.node]) /\ res.len \in 1..MAX_KEY_LEN) =>
        /\ res.code = "OK"
        /\ res.buf = db.given[res.node]

\* get_name returns OK if the buffer holds the name with the bytes that
\* align it, and then the buffer begins with the bytes of the key
NameReadPadded ==
    res.op = "get_name" =>
        /\ res.code = "OK" <=> res.len >= align_node(SIZE_NODE_HDR + Len(db.given[res.node]))
                                              - SIZE_NODE_HDR
        /\ res.code = "OK" =>
               SubSeq(res.buf, 1, Len(db.given[res.node])) = db.given[res.node]


\* C21: every live link refers to a live node: create_link stores references
\* to existing nodes only, and no node is deleted while a link refers to it.
LinkTargetsLive ==
    \A l \in Links(db) : EffNode(db, l).value \in Reach(db, db.hdr.root, MaxLevel)

\* Links between keys that are committed: the keys were created and
\* committed, AUTOSAVE is off
LinkedSteps == 4
InitLinked ==
    /\ env = [cfg |-> [l2_len |-> L2Rows, assoc |-> 4, npp |-> 2, max_pages |-> 6],
              keys |-> LinkKeys, values |-> 1, levels |-> 1, steps |-> LinkedSteps]
    /\ db = avstor_commit(CacheDb(db_create_file(env.cfg, FALSE), LinkKeys)).db
    /\ res = Result("commit", "OK")
    /\ committed = View(db)
    /\ cursor = NoCursor
    /\ steps = 0
    /\ lock = 0
    /\ pc = [t \in Threads |-> "idle"]
    /\ upgraded = {}
    /\ look = [t \in Threads |-> NoLook]
SpecLinked == InitLinked /\ [][NextLinks]_vars

\* Links in one transaction: no commit
NextLinksOpen == CreateKey \/ CreateLink \/ Delete
SpecLinksOpen == InitLinks /\ [][NextLinksOpen]_vars

\* the delete of a key that holds nothing and is the target of a live link
\* was refused
LinkedTargetKept ==
    /\ res.op = "delete" /\ res.code = "INVOPER" /\ ~res.isvalue
    /\ LET t == Named(db, res.parent, res.isvalue, res.key) IN
       /\ \E l \in Links(db) : EffNode(db, l).value = t
       /\ EffNode(db, t).value_root = 0 /\ EffNode(db, t).subkey_root = 0


\* a write that returned an error after the rollback of its handler
RolledBack(r) == r.op \in Writes /\ r.code \notin {"OK", "NOTFOUND", "PARAM"}

\* C22: after every rollback the header page in memory is equal to the header
\* page stored in the file.
HeaderRestored ==
    [][RolledBack(res') => db'.hdr = db'.file[0]]_vars


\* ------------------------------------------------------- page checksums
\* A page as the bytes read_page and write_page move: the four bytes of its
\* checksum, its status byte, and the rest, here SumLen bytes long.
MOD_ADLER == 65521
PAGE_DIRTY == 128

PageBytes(page) == page.checksum \o <<IF page.dirty THEN PAGE_DIRTY ELSE 0>> \o page.body

\* the loop of compute_page_checksum from byte i on: <<a, b>>.  The sums of
\* the 4096 bytes of a page stay below 2^32.
RECURSIVE ChecksumLoop(_, _, _, _)
ChecksumLoop(bytes, i, a, b) ==
    IF i > Len(bytes) THEN <<a, b>>
    ELSE ChecksumLoop(bytes, i + 1, a + bytes[i], b + a + bytes[i])

\* compute_page_checksum: (b << 16) | a, as the bytes of the checksum field
compute_page_checksum(page) ==
    LET s == ChecksumLoop(PageBytes(page), 1, 1, 0)
        a == s[1] % MOD_ADLER
        b == s[2] % MOD_ADLER
    IN  <<a % 256, a \div 256, b % 256, b \div 256>>

\* a checksum computed over the checksum the page still holds
update_page_checksum_kept(page) == [page EXCEPT !.checksum = compute_page_checksum(page)]

update_page_checksum(page) ==
    [page EXCEPT !.checksum = compute_page_checksum([page EXCEPT !.checksum = Zeros(4)])]

\* write_page: [file, page, code]; ok is whether io_write writes the page
write_page_bytes(file, page, ok) ==
    IF ~page.dirty THEN [file |-> file, page |-> page, code |-> "OK"]
    ELSE LET clean == update_page_checksum([page EXCEPT !.dirty = FALSE]) IN
         IF ok THEN [file |-> clean, page |-> clean, code |-> "OK"]
         ELSE [file |-> file, page |-> [clean EXCEPT !.dirty = TRUE], code |-> "IOERR"]

\* read_page: [page, code]; the frame holds what was read
read_page_bytes(file, page) ==
    IF file = NoPage THEN [page |-> page, code |-> "IOERR"]
    ELSE IF file.checksum # compute_page_checksum([file EXCEPT !.checksum = Zeros(4)])
    THEN [page |-> file, code |-> "CORRUPT"]
    ELSE [page |-> file, code |-> "OK"]

\* the calls of a run, the bytes of a page after its status byte, and the
\* greatest byte
SumSteps == 4
SumLen == 3
SumByte == 255

\* db.page is a frame of the cache, db.file the page of the file it maps,
\* db.damaged whether the medium changed a byte of that page
InitSum ==
    /\ db = [page |-> [checksum |-> Zeros(4), dirty |-> TRUE, body |-> Zeros(SumLen)],
             file |-> NoPage, damaged |-> FALSE]
    /\ env = [steps |-> SumSteps]
    /\ res = Result("open", "OK")
    /\ committed = {}
    /\ cursor = NoCursor
    /\ steps = 0
    /\ lock = 0
    /\ pc = [t \in Threads |-> "idle"]
    /\ upgraded = {}
    /\ look = [t \in Threads |-> NoLook]

\* an operation changes a byte of the page and marks it dirty
SumModify ==
    /\ Bounded
    /\ \E i \in 1..SumLen, v \in {0, 1, SumByte} :
         db' = [db EXCEPT !.page.body[i] = v, !.page.dirty = TRUE]
    /\ res' = [op |-> "modify", code |-> "OK"]
    /\ Called

\* a commit, or an eviction under AUTOSAVE, writes the page
SumWrite ==
    /\ Bounded
    /\ \E ok \in BOOLEAN :
         LET w == write_page_bytes(db.file, db.page, ok) IN
         /\ db' = [db EXCEPT !.page = w.page, !.file = w.file,
                             !.damaged = IF ok /\ db.page.dirty THEN FALSE ELSE @]
         /\ res' = [op |-> "write", code |-> w.code]
    /\ Called

\* the medium changes a byte of the page in the file
SumDamage ==
    /\ Bounded
    /\ db.file # NoPage
    /\ \E i \in 1..(4 + SumLen), v \in {0, 1, SumByte} :
         /\ IF i <= 4 THEN db.file.checksum[i] # v ELSE db.file.body[i - 4] # v
         /\ db' = IF i <= 4 THEN [db EXCEPT !.file.checksum[i] = v, !.damaged = TRUE]
                  ELSE [db EXCEPT !.file.body[i - 4] = v, !.damaged = TRUE]
    /\ res' = [op |-> "damage", code |-> "OK"]
    /\ Called

\* a lookup that misses loads the page from the file
SumRead ==
    /\ Bounded
    /\ ~db.page.dirty
    /\ LET r == read_page_bytes(db.file, db.page) IN
       /\ db' = [db EXCEPT !.page = r.page]
       /\ res' = [op |-> "read", code |-> r.code]
    /\ Called

NextSum == SumModify \/ SumWrite \/ SumDamage \/ SumRead
SpecSum == InitSum /\ [][NextSum]_vars

\* the weighted sum of Adler-32: n times the first byte, n - 1 times the
\* second, ..., once the last
RECURSIVE Weighted(_, _)
Weighted(bytes, i) ==
    IF i > Len(bytes) THEN 0 ELSE (Len(bytes) - i + 1) * bytes[i] + Weighted(bytes, i + 1)

\* the sum of the bytes from byte i on
RECURSIVE ByteSum(_, _)
ByteSum(bytes, i) == IF i > Len(bytes) THEN 0 ELSE bytes[i] + ByteSum(bytes, i + 1)

\* Adler-32 of the bytes with the checksum taken as zero: <<a, b>>
Adler32(page) ==
    LET bytes == PageBytes([page EXCEPT !.checksum = Zeros(4)]) IN
    <<(1 + ByteSum(bytes, 1)) % MOD_ADLER,
      (Len(bytes) + Weighted(bytes, 1)) % MOD_ADLER>>

\* the checksum a page stores: <<a, b>> of (b << 16) | a
Stored(page) == <<page.checksum[1] + 256 * page.checksum[2],
                  page.checksum[3] + 256 * page.checksum[4]>>

\* C23: the page a write that succeeded left in the file stores the Adler-32
\* of its bytes computed with the checksum taken as zero, as long as the
\* medium keeps it, and loading a page whose checksum differs from the one
\* computed fails with CORRUPT.
ChecksumsChecked ==
    /\ (db.file # NoPage /\ ~db.damaged) => Stored(db.file) = Adler32(db.file)
    /\ (res.op = "read" /\ db.file # NoPage) =>
           (res.code = "CORRUPT" <=> Stored(db.file) # Adler32(db.file))

\* a page written with its checksum was damaged and its load failed
DamagedPageRefused ==
    /\ res.op = "read" /\ res.code = "CORRUPT" /\ db.damaged
    /\ Stored(db.file) # Adler32(db.file)


\* ---------------------------------------------------------- write-backs
\* Autosave, with the pages of the file as the last commit left them kept in
\* committed
BackSteps == 6
InitBack ==
    /\ env = [cfg |-> [l2_len |-> L2Rows, assoc |-> TxnAssoc, npp |-> 1, max_pages |-> 5],
              keys |-> AutoKeys, values |-> 0, levels |-> 1, steps |-> BackSteps]
    /\ db = db_create_file(env.cfg, TRUE)
    /\ res = Result("open", "OK")
    /\ committed = db.file
    /\ cursor = NoCursor
    /\ steps = 0
    /\ lock = 0
    /\ pc = [t \in Threads |-> "idle"]
    /\ upgraded = {}
    /\ look = [t \in Threads |-> NoLook]

BackCommit ==
    /\ Bounded
    /\ db' = do_avstor_commit(db).db
    /\ res' = Result("commit", "OK")
    /\ committed' = db'.file
    /\ Written

NextBack == CreateKey \/ Delete \/ BackCommit
SpecBack == InitBack /\ [][NextBack]_vars

\* the pages of the file that differ between two states of it
Rewritten(f, g) == {p \in DOMAIN f : f[p] # g[p]}

\* C24: between two consecutive commits each page is written back to the
\* file at most once: a page that a create or a delete writes is, until
\* then, as the last commit left it.
WrittenBackOnce ==
    [][res'.op # "commit" =>
          \A p \in Rewritten(db.file, db'.file) : db.file[p] = committed[p]]_vars


\* ------------------------------------------------- lookups of one page
\* the items of the cache that map the page at ofs
MappedAt(d, ofs) == {rc \in Mapped(d) : d.rows[rc[1]].items[rc[2]].offset = ofs}

EvictSteps == 6
InitEvict ==
    /\ env = [cfg |-> [l2_len |-> L2Rows, assoc |-> TxnAssoc, npp |-> 1, max_pages |-> 5],
              keys |-> CacheKeys, values |-> 0, levels |-> 1, steps |-> EvictSteps]
    /\ \E autosave \in BOOLEAN :
         LET d == avstor_commit(CacheDb(db_create_file(env.cfg, TRUE), CacheKeys)).db IN
         db = db_open_file(env.cfg, d.file, autosave).db
    /\ res = Result("open", "OK")
    /\ committed = View(db)
    /\ cursor = NoCursor
    /\ steps = 0
    /\ lock = 0
    /\ pc = [t \in Threads |-> "idle"]
    /\ upgraded = {}
    /\ look = [t \in Threads |-> NoLook]

\* cache_lookup of an existing page; res.key is the page
EvictLookup ==
    /\ Bounded
    /\ \E ofs \in CachePages :
         LET d == cache_lookup(db, ofs, TRUE) IN
         /\ db' = [d EXCEPT !.err = "OK"]
         /\ res' = [Result("cache_lookup", d.err) EXCEPT !.key = ofs]
    /\ steps' = steps + 1
    /\ UNCHANGED <<committed, cursor, env, locks>>

\* set_page_dirty of a page the thread has pinned
EvictDirty ==
    /\ Bounded
    /\ \E ofs \in CachePages :
         /\ MappedAt(db, ofs) # {}
         /\ PageAt(db, ofs).lock_count > 0
         /\ db' = set_page_dirty(db, ofs)
         /\ res' = [Result("set_page_dirty", "OK") EXCEPT !.key = ofs]
    /\ steps' = steps + 1
    /\ UNCHANGED <<committed, cursor, env, locks>>

\* unlock_page of a page the thread has pinned
EvictUnpin ==
    /\ Bounded
    /\ \E ofs \in CachePages :
         /\ MappedAt(db, ofs) # {}
         /\ PageAt(db, ofs).lock_count > 0
         /\ db' = [unlock_page(db, ofs) EXCEPT !.err = "OK"]
         /\ res' = [Result("unlock_page", "OK") EXCEPT !.key = ofs]
    /\ steps' = steps + 1
    /\ UNCHANGED <<committed, cursor, env, locks>>

NextEvict == EvictLookup \/ EvictDirty \/ EvictUnpin
SpecEvict == InitEvict /\ [][NextEvict]_vars

\* the items of d an eviction may take: mapped, unpinned, and clean or, under
\* AUTOSAVE, flushable
Evictable(d) ==
    {rc \in Mapped(d) :
        LET it == d.rows[rc[1]].items[rc[2]] IN
        it.page.lock_count = 0 /\ (d.autosave \/ ~is_page_dirty(it.page))}

\* C26: a lookup that evicts takes, of the items that are unpinned and clean
\* or flushable, the one with the smallest load_time, and with AUTOSAVE off
\* a lookup fails with ABORT only when its row holds no unpinned clean page.
EvictsOldestEvictable ==
    [][res'.op = "cache_lookup" =>
          /\ \A rc \in Mapped(db) :
                LET it == db.rows[rc[1]].items[rc[2]] IN
                (res'.code = "OK" /\ MappedAt(db', it.offset) = {}) =>
                    /\ rc \in Evictable(db)
                    /\ \A rd \in Evictable(db) :
                          it.load_time <= db.rows[rd[1]].items[rd[2]].load_time
          /\ (res'.code = "ABORT" /\ ~db.autosave) => Evictable(db) = {}]_vars


\* ------------------------------------------------------ the buffer pool
\* the calls of bpool_alloc_page a cache_lookup of page_ofs makes: one for
\* the item the scan gave it, empty or available, and one in
\* cache_line_realloc when nothing can be evicted
bpool_allocs(d, page_ofs) ==
    LET r == cache_get_row(d, page_ofs)
        sc == cache_lookup_scan_line(d.rows[r], page_ofs)
    IN  IF sc.item # 0 THEN 0
        ELSE IF sc.out # 0 THEN 1
        ELSE IF cache_evict(d, r).res = "evict_fail" THEN 1 ELSE 0

\* One thread on the cache of a committed file, AUTOSAVE on or off: db.cache
\* is the cache with its file, db.bpool the number of frames taken from the
\* buffer pool
PoolSteps == 6
InitPool ==
    /\ env = [cfg |-> [l2_len |-> L2Rows, assoc |-> TxnAssoc, npp |-> 1, max_pages |-> 5],
              keys |-> CacheKeys, values |-> 0, levels |-> 1, steps |-> PoolSteps]
    /\ \E autosave \in BOOLEAN :
         LET d == avstor_commit(CacheDb(db_create_file(env.cfg, TRUE), CacheKeys)).db IN
         db = [cache |-> db_open_file(env.cfg, d.file, autosave).db, bpool |-> 0]
    /\ res = Result("open", "OK")
    /\ committed = View(db.cache)
    /\ cursor = NoCursor
    /\ steps = 0
    /\ lock = 0
    /\ pc = [t \in Threads |-> "idle"]
    /\ upgraded = {}
    /\ look = [t \in Threads |-> NoLook]

\* cache_lookup of an existing page; res.key is the page
PoolLookup ==
    /\ Bounded
    /\ \E ofs \in CachePages :
         LET d == cache_lookup(db.cache, ofs, TRUE) IN
         /\ db' = [cache |-> [d EXCEPT !.err = "OK"],
                   bpool |-> db.bpool + bpool_allocs(db.cache, ofs)]
         /\ res' = [Result("cache_lookup", d.err) EXCEPT !.key = ofs]
    /\ steps' = steps + 1
    /\ UNCHANGED <<committed, cursor, env, locks>>

\* set_page_dirty of a page the thread has pinned
PoolDirty ==
    /\ Bounded
    /\ \E ofs \in CachePages :
         /\ MappedAt(db.cache, ofs) # {}
         /\ PageAt(db.cache, ofs).lock_count > 0
         /\ db' = [db EXCEPT !.cache = set_page_dirty(db.cache, ofs)]
         /\ res' = [Result("set_page_dirty", "OK") EXCEPT !.key = ofs]
    /\ steps' = steps + 1
    /\ UNCHANGED <<committed, cursor, env, locks>>

\* unlock_page of a page the thread has pinned
PoolUnpin ==
    /\ Bounded
    /\ \E ofs \in CachePages :
         /\ MappedAt(db.cache, ofs) # {}
         /\ PageAt(db.cache, ofs).lock_count > 0
         /\ db' = [db EXCEPT !.cache = [unlock_page(db.cache, ofs) EXCEPT !.err = "OK"]]
         /\ res' = [Result("unlock_page", "OK") EXCEPT !.key = ofs]
    /\ steps' = steps + 1
    /\ UNCHANGED <<committed, cursor, env, locks>>

\* the rollback of an operation that failed
PoolRollback ==
    /\ Bounded
    /\ db' = [db EXCEPT !.cache = rollback(db.cache)]
    /\ res' = Result("rollback", "OK")
    /\ steps' = steps + 1
    /\ UNCHANGED <<committed, cursor, env, locks>>

NextPool == PoolLookup \/ PoolDirty \/ PoolUnpin \/ PoolRollback
SpecPool == InitPool /\ [][NextPool]_vars

\* the item slots of the cache rows
RECURSIVE SlotsOf(_, _)
SlotsOf(d, rows) ==
    IF rows = {} THEN 0
    ELSE LET r == CHOOSE x \in rows : TRUE IN d.rows[r].capacity + SlotsOf(d, rows \ {r})

\* the scan of the row of the page at ofs misses and gives an available
\* item: one with a frame and file offset 0
MissOnAvailable(d, ofs) ==
    LET line == d.rows[cache_get_row(d, ofs)]
        sc == cache_lookup_scan_line(line, ofs)
    IN  sc.item = 0 /\ sc.out # 0 /\ line.items[sc.out].page # NoPage

\* C27: a lookup that misses while its row has an available item takes no
\* frame from the buffer pool, and the frames taken from the pool are never
\* more than the item slots of the cache rows.
FramesWithinSlots ==
    [][/\ db'.bpool <= SlotsOf(db'.cache, DOMAIN db'.cache.rows)
       /\ (res'.op = "cache_lookup" /\ MissOnAvailable(db.cache, res'.key))
              => db'.bpool = db.bpool]_vars


\* ------------------------------------------------- the bytes of a page
\* A data page as memory: its fields top, index_freelist and index_count,
\* and mem, its bytes by offset in the page, which hold the index array from
\* INDEX_BASE on and the nodes from top to the end.  The page is RawSize
\* bytes long, RawWords words of four bytes, in place of PAGE_SIZE.
RawWords == 24
RawSize == 4 * RawWords
\* sizeof(AvNode), aligned
SIZE_NODE == 16
\* offsetof(AvNode, index)
NODE_INDEX == 2

\* a uint16_t at offset o
Get16(mem, o) == mem[o] + 256 * mem[o + 1]
Put16(mem, o, v) == [mem EXCEPT ![o] = v % 256, ![o + 1] = v \div 256]

\* a copy that goes byte by byte from the lowest address on
RECURSIVE memmove_forward(_, _, _, _)
memmove_forward(mem, dest, src, n) ==
    IF n = 0 THEN mem
    ELSE memmove_forward([mem EXCEPT ![dest] = mem[src]], dest + 1, src + 1, n - 1)

memmove(mem, dest, src, n) ==
    [a \in DOMAIN mem |-> IF a >= dest /\ a < dest + n THEN mem[a - dest + src] ELSE mem[a]]

memset(mem, at, v, n) ==
    [a \in DOMAIN mem |-> IF a >= at /\ a < at + n THEN v ELSE mem[a]]

\* the size of a node is kept in the bits of hdr above the low six
get_node_size(mem, node) == (Get16(mem, node) - (Get16(mem, node) % 64)) \div 16
set_node_size(mem, node, nodesz) == Put16(mem, node, (Get16(mem, node) % 64) + nodesz * 16)

\* create_page: an empty index and no node
NewRawPage == [top |-> RawSize, index_freelist |-> INVALID_INDEX, index_count |-> 0,
               mem |-> [a \in 0..(RawSize - 1) |-> 0]]

\* the bytes between the index array and top, with no slot to come
get_page_free_unreserved(page) ==
    IF page.top > INDEX_BASE + 2 * page.index_count
    THEN page.top - (INDEX_BASE + 2 * page.index_count) ELSE 0

get_page_free_raw(page) ==
    LET bottom == align_node(INDEX_BASE + 2 * page.index_count
                             + (IF page.index_freelist = INVALID_INDEX THEN 2 ELSE 0))
    IN  IF page.top > bottom THEN page.top - bottom ELSE 0

\* alloc_node in the preferred page: [page, ref, code].  The slot is the
\* first of the free list, else a new one at the end of the index; the node
\* is cut off the top of the free space.  A node that does not fit needs a
\* new page, and the file may hold no more.
alloc_node_raw(page, size) ==
    IF size > get_page_free_raw(page) THEN [page |-> page, ref |-> 0, code |-> "INVOPER"]
    ELSE LET nextfree == page.index_freelist
             index == IF nextfree = INVALID_INDEX THEN INDEX_BASE + 2 * page.index_count
                      ELSE nextfree
             count == IF nextfree = INVALID_INDEX THEN page.index_count + 1
                      ELSE page.index_count
             freelist == IF nextfree = INVALID_INDEX THEN INVALID_INDEX
                         ELSE Get16(page.mem, nextfree)
             top == page.top - size
             slotted == Put16(page.mem, index, top)
             paged == [page EXCEPT !.index_freelist = freelist, !.index_count = count,
                                   !.top = top, !.mem = slotted]
         IN  IF top < INDEX_BASE + 2 * count
             THEN [page |-> paged, ref |-> 0, code |-> "INTERNAL"]
             ELSE [page |-> [paged EXCEPT !.mem = set_node_size(
                                 Put16(slotted, top + NODE_INDEX, index), top, size)],
                   ref |-> index, code |-> "OK"]

\* the loop of resize_node over the nodes from cur up to next: the slot of
\* each moves by delta.  A node of size 0 would keep the loop from ending:
\* the result is then no memory.
RECURSIVE AdjustSlots(_, _, _, _)
AdjustSlots(mem, cur, next, delta) ==
    IF cur >= next THEN mem
    ELSE IF get_node_size(mem, cur) = 0 THEN << >>
    ELSE LET curslot == Get16(mem, cur + NODE_INDEX) IN
         AdjustSlots(Put16(mem, curslot, Get16(mem, curslot) + delta),
                     cur + get_node_size(mem, cur), next, delta)

\* resize_node, and free_node, which is resize_node to size 0: [page, code].
\* wide is whether a pointer is wider than the unsigned offset added to it:
\* then the memset of a node that grows by more than its size, at the
\* offset oldsize - diff that wrapped, falls outside the page.
resize_node_raw(page, node, newsize, wide) ==
    LET oldsize == get_node_size(page.mem, node)
        newtop == page.top + oldsize - newsize
        next == node + oldsize
        index == Get16(page.mem, node + NODE_INDEX)
        last == index = INDEX_BASE - 2 + 2 * page.index_count
        freed == IF newsize # 0 THEN page
                 ELSE IF last
                 THEN [page EXCEPT !.mem = Put16(@, index, 0), !.index_count = @ - 1]
                 ELSE [page EXCEPT !.mem = Put16(@, index, page.index_freelist),
                                   !.index_freelist = index]
        src == page.top
        count == node - src
        sized == set_node_size(freed.mem, node, newsize)
        moved == IF newsize < oldsize
                 THEN memset(memmove(sized, newtop, src, count + newsize),
                             src, 0, oldsize - newsize)
                 ELSE LET diff == newsize - oldsize
                          m == memmove(sized, newtop, src, count + oldsize)
                      IN  IF wide /\ diff > oldsize THEN m
                          ELSE memset(m, node + oldsize - diff, 0, diff)
        adjusted == AdjustSlots(moved, newtop, next, oldsize - newsize)
    IN  IF newsize = oldsize THEN [page |-> page, code |-> "OK"]
        ELSE IF newsize > oldsize /\ newsize - oldsize > get_page_free_raw(page)
        THEN [page |-> page, code |-> "INTERNAL"]
        ELSE IF adjusted = << >> THEN [page |-> page, code |-> "HANG"]
        ELSE [page |-> [freed EXCEPT !.mem = adjusted, !.top = newtop], code |-> "OK"]

\* get_node: the offset of the node of a slot
get_node_raw(page, index) == Get16(page.mem, index)

\* the calls of a run, the sizes of the nodes and the bytes they are filled
\* with
RawSteps == 6
RawSizes == {16, 20, 36}
RawTags == 2

\* db.page is the page, db.live the slots of the nodes allocated and not freed
InitRaw ==
    /\ db = [page |-> NewRawPage, live |-> {}]
    /\ env = [steps |-> RawSteps]
    /\ res = Result("open", "OK")
    /\ committed = {}
    /\ cursor = NoCursor
    /\ steps = 0
    /\ lock = 0
    /\ pc = [t \in Threads |-> "idle"]
    /\ upgraded = {}
    /\ look = [t \in Threads |-> NoLook]

\* create_node: alloc_node, and the node filled after its hdr and index
RawAlloc ==
    /\ Bounded
    /\ \E size \in RawSizes, tag \in 1..RawTags :
         LET r == alloc_node_raw(db.page, size) IN
         /\ db' = IF r.code # "OK" THEN [db EXCEPT !.page = r.page]
                  ELSE [page |-> [r.page EXCEPT !.mem = memset(@, r.page.top + 4, tag, size - 4)],
                        live |-> db.live \cup {r.ref}]
         /\ res' = [Result("alloc_node", r.code) EXCEPT !.key = r.ref]
    /\ Called

\* resize_node of a node to another size; res.parent is the size it had
RawResize ==
    /\ Bounded
    /\ \E ref \in db.live, newsize \in RawSizes, wide \in BOOLEAN :
         LET r == resize_node_raw(db.page, get_node_raw(db.page, ref), newsize, wide) IN
         /\ db' = [db EXCEPT !.page = r.page]
         /\ res' = [Result("resize_node", r.code) EXCEPT
                        !.key = ref,
                        !.parent = get_node_size(db.page.mem, get_node_raw(db.page, ref))]
    /\ Called

\* free_node
RawFree ==
    /\ Bounded
    /\ \E ref \in db.live :
         LET r == resize_node_raw(db.page, get_node_raw(db.page, ref), 0, FALSE) IN
         /\ db' = [page |-> r.page, live |-> db.live \ {ref}]
         /\ res' = [Result("free_node", r.code) EXCEPT !.key = ref]
    /\ Called

NextRaw == RawAlloc \/ RawResize \/ RawFree
SpecRaw == InitRaw /\ [][NextRaw]_vars


\* the slots of the index array, and those of the free list from index on
SlotArray(page) == {INDEX_BASE + 2 * (s - 1) : s \in 1..page.index_count}
RECURSIVE FreeChain(_, _, _)
FreeChain(page, index, fuel) ==
    IF index = INVALID_INDEX \/ fuel = 0 \/ index \notin SlotArray(page) THEN {}
    ELSE {index} \cup FreeChain(page, Get16(page.mem, index), fuel - 1)

RECURSIVE SizeSum(_, _)
SizeSum(page, refs) ==
    IF refs = {} THEN 0
    ELSE LET r == CHOOSE x \in refs : TRUE IN
         get_node_size(page.mem, get_node_raw(page, r)) + SizeSum(page, refs \ {r})

\* C28: after any sequence of alloc_node, resize_node and free_node the live
\* nodes lie between top and the end of the page without overlap, top plus
\* the sum of their sizes is the size of the page, the index array ends at or
\* below top, every live slot holds the offset of a node of its own whose
\* header holds the slot, and every other slot of the array holds 0 or is on
\* the free list.
PageConsistent ==
    LET page == db.page
        at(ref) == get_node_raw(page, ref)
        size(ref) == get_node_size(page.mem, at(ref))
    IN  /\ db.live \subseteq SlotArray(page)
        /\ \A ref \in db.live :
              /\ at(ref) >= page.top /\ size(ref) >= SIZE_NODE
              /\ at(ref) + size(ref) <= RawSize
              /\ Get16(page.mem, at(ref) + NODE_INDEX) = ref
        /\ \A r1, r2 \in db.live :
              r1 # r2 => at(r1) + size(r1) <= at(r2) \/ at(r2) + size(r2) <= at(r1)
        /\ page.top + SizeSum(page, db.live) = RawSize
        /\ INDEX_BASE + 2 * page.index_count <= page.top
        /\ \A slot \in SlotArray(page) \ db.live :
              \/ Get16(page.mem, slot) = 0
              \/ slot \in FreeChain(page, page.index_freelist, page.index_count)
        /\ res.code # "HANG" /\ (res.op = "alloc_node" => res.code # "INTERNAL")

\* a node was allocated in a slot of the free list, below other nodes
SlotReused ==
    /\ res.op = "alloc_node" /\ res.code = "OK"
    /\ res.key < INDEX_BASE + 2 * (db.page.index_count - 1)
    /\ Cardinality(db.live) >= 3

\* the bytes of the node of a slot
NodeBytes(page, ref) ==
    LET o == get_node_raw(page, ref) IN
    [i \in 0..(get_node_size(page.mem, o) - 1) |-> page.mem[o + i]]

\* C29: a resize_node or a free_node of one node leaves every other node of
\* the page at its slot, with the bytes it had.
OtherNodesKept ==
    [][res'.op \in {"resize_node", "free_node"} =>
          \A ref \in db.live \ {res'.key} : NodeBytes(db'.page, ref) = NodeBytes(db.page, ref)]_vars

\* a node between two others changed its size, and the node below it moved
NodeResizedBetween ==
    /\ res.op = "resize_node" /\ res.code = "OK"
    /\ get_node_size(db.page.mem, get_node_raw(db.page, res.key)) # res.parent
    /\ \E lo, hi \in db.live :
          /\ get_node_raw(db.page, lo) < get_node_raw(db.page, res.key)
          /\ get_node_raw(db.page, res.key) < get_node_raw(db.page, hi)


\* --------------------------------------------------------- pins at return
\* avs_check_cache_consistency: CORRUPT when a frame of a row, up to the
\* first item without one, has a pin count other than 0
avs_check_cache_consistency(d) ==
    IF \E r \in DOMAIN d.rows : \E c \in 1..d.rows[r].capacity :
          /\ c < FirstEmpty(d.rows[r])
          /\ d.rows[r].items[c].page.lock_count # 0
    THEN "CORRUPT" ELSE "OK"

\* C30: when a public operation has returned, with OK or with an error,
\* every page of the cache has the pin count 0: avs_check_cache_consistency
\* returns OK.
PinsReleased == avs_check_cache_consistency(db) = "OK"

\* ---------------------------------------------------------------------------
\* writes to cached pages and their pins
\* ---------------------------------------------------------------------------

PinSteps == 5

\* the db record with the field that records a write to an unpinned page
WithBare(d) == [f \in DOMAIN d \cup {"bare"} |-> IF f = "bare" THEN FALSE ELSE d[f]]

\* one node per page, so that a node and its tree parent lie on different pages
InitPins ==
    /\ env = [cfg |-> [l2_len |-> L2Rows, assoc |-> TxnAssoc + 1, npp |-> 1, max_pages |-> 5],
              keys |-> AutoKeys, values |-> 0, levels |-> 1, steps |-> PinSteps]
    /\ db = WithBare(db_create_file(env.cfg, TRUE))
    /\ res = Result("open", "OK")
    /\ committed = do_View(db)
    /\ cursor = NoCursor
    /\ steps = 0
    /\ lock = 0
    /\ pc = [t \in Threads |-> "idle"]
    /\ upgraded = {}
    /\ look = [t \in Threads |-> NoLook]

NextPins == CreateKey \/ Delete \/ Commit
SpecPins == InitPins /\ [][NextPins]_vars

\* C31: every write to the node contents, the slot array or a header field of
\* a cached data page happens while that page's pin count is greater than zero
\* (the writer holds the database lock exclusively: every writing operation
\* takes rwl_lock_exclusive before its first write)
WritesWhilePinned == ~db.bare

\* ---------------------------------------------------------------------------
\* updates of values, and what a failed writing operation leaves behind
\* ---------------------------------------------------------------------------

UpdSteps == 5

\* the handle is one of a node of the tree, a key or a value
UpdateInt32 ==
    /\ Bounded
    /\ \E value \in do_Reach(db, db.hdr.root, MaxLevel), new_val \in {7, 8} :
         LET r == do_avstor_update_int32(db, value, new_val) IN
         /\ db' = r.db
         /\ res' = [Result("update_int32", r.code) EXCEPT !.parent = value, !.key = new_val]
    /\ Written
    /\ UNCHANGED committed

InitUpd ==
    Start([cfg |-> [l2_len |-> L2Rows, assoc |-> TxnAssoc, npp |-> NodesPerPage,
                    max_pages |-> TxnPages],
           keys |-> TxnKeys, values |-> TxnKeys, levels |-> 1, steps |-> UpdSteps],
          FALSE)

NextUpd == CreateKey \/ CreateInt32 \/ UpdateInt32 \/ Delete \/ Commit
SpecUpd == InitUpd /\ [][NextUpd]_vars

WriteOps == {"create_key", "create_int32", "update_int32", "delete"}

\* the operation failed after it took the lock: it raised an error (a delete
\* returns PARAM before it takes the lock, and NOTFOUND, when it finds no node
\* of the name, without raising an error)
Failed(r) == r.code # "OK" /\ ~(r.op = "delete" /\ r.code \in {"NOTFOUND", "PARAM"})

\* C32: a create, an update or a delete that fails after it took the database
\* lock has run rollback before it returns: it leaves the database as
\* rollback leaves it
FailedWriteRolledBack ==
    [][(res'.op \in WriteOps /\ Failed(res')) => rollback(db') = db']_vars

\* ---------------------------------------------------------------------------
\* the public operations and the database lock
\* ---------------------------------------------------------------------------

\* calls are made while the lock counts at most this many readers
OpReaders == 3

\* the operations that take the lock shared, those that take it exclusively,
\* and avstor_delete, which takes it shared and upgrades
SharedOps == {"avstor_find", "avstor_get_name", "avstor_get_type", "avstor_get_int32",
              "avstor_inorder_next"}
ExclusiveOps == {"avstor_create_key", "avstor_update_int32", "avstor_commit"}
PublicOps == SharedOps \cup ExclusiveOps \cup {"avstor_delete"}

\* every operation releasing the lock on every path (not what the code does)
ReleasesAlways(op, path) == TRUE

\* whether the path of the operation passes rwl_release before it returns:
\* the TRY block of avstor_get_type returns AVSTOR_OK directly
Releases(op, path) == ~(op = "avstor_get_type" /\ path = "ok")

\* a thread calls a public operation; look[t].state names it until it returns
OpCall(t) ==
    /\ pc[t] = "idle"
    /\ lock <= 2 * OpReaders
    /\ \E op \in PublicOps :
         /\ look' = [look EXCEPT ![t].state = op]
         /\ pc' = [pc EXCEPT ![t] = IF op \in ExclusiveOps THEN "lock_exclusive"
                                    ELSE "lock_shared"]
    /\ UNCHANGED <<lock, upgraded, store>>

\* the operation's rwl_lock_shared or rwl_lock_exclusive, and its return from
\* avcnd_wait
OpLock(t) ==
    (rwl_lock_shared(t) \/ rwl_lock_exclusive(t) \/ Spurious(t)) /\ UNCHANGED look

\* avstor_delete found its node and upgrades; refused, it releases the lock
\* and starts again
OpUpgrade(t) ==
    /\ look[t].state = "avstor_delete"
    /\ \/ rwl_upgrade(t)
       \/ pc[t] = "upgrade_failed" /\ rwl_release(t) /\ pc'[t] = "lock_shared"
    /\ UNCHANGED look

\* the operation returns, with OK or through its handler
OpReturn(t) ==
    /\ pc[t] \in {"shared", "exclusive"}
    /\ \E path \in {"ok", "error"} :
         IF Releases(look[t].state, path)
         THEN rwl_release(t)
         ELSE pc' = [pc EXCEPT ![t] = "idle"] /\ UNCHANGED <<lock, upgraded, store>>
    /\ look' = [look EXCEPT ![t].state = "idle"]

NextOps == \E t \in Threads : OpCall(t) \/ OpLock(t) \/ OpUpgrade(t) \/ OpReturn(t)
SpecOps == Init /\ [][NextOps]_vars

\* C33: every public operation that took the database lock has released it
\* when it returns, with OK or with an error: while no call is in progress
\* the lock is free
LockFreeWhenIdle == (\A t \in Threads : pc[t] = "idle") => lock = 0

\* ---------------------------------------------------------------------------
\* handles of deleted nodes
\* ---------------------------------------------------------------------------

StaleSteps == 7

\* get_node that finds every freed slot empty (not what the code does)
get_node_code_freed(page, index) == "INVOPER"

\* get_node: INVOPER when the slot holds INVALID_INDEX, else the node at the
\* offset the slot holds
get_node_code(page, index) ==
    IF Get16(page.mem, index) = INVALID_INDEX THEN "INVOPER" ELSE "OK"

\* db.stale: the references of freed nodes whose slot no node was given since
InitStale ==
    /\ db = [page |-> NewRawPage, live |-> {}, stale |-> {}]
    /\ env = [steps |-> StaleSteps]
    /\ res = Result("open", "OK")
    /\ committed = {}
    /\ cursor = NoCursor
    /\ steps = 0
    /\ lock = 0
    /\ pc = [t \in Threads |-> "idle"]
    /\ upgraded = {}
    /\ look = [t \in Threads |-> NoLook]

StaleAlloc ==
    /\ Bounded
    /\ \E tag \in 1..RawTags :
         LET r == alloc_node_raw(db.page, SIZE_NODE) IN
         /\ db' = IF r.code # "OK" THEN [db EXCEPT !.page = r.page]
                  ELSE [page |-> [r.page EXCEPT !.mem = memset(@, r.page.top + 4, tag, SIZE_NODE - 4)],
                        live |-> db.live \cup {r.ref},
                        stale |-> db.stale \ {r.ref}]
         /\ res' = [Result("alloc_node", r.code) EXCEPT !.key = r.ref]
    /\ Called

StaleFree ==
    /\ Bounded
    /\ \E ref \in db.live :
         LET r == resize_node_raw(db.page, get_node_raw(db.page, ref), 0, FALSE) IN
         /\ db' = [page |-> r.page, live |-> db.live \ {ref}, stale |-> db.stale \cup {ref}]
         /\ res' = [Result("free_node", r.code) EXCEPT !.key = ref]
    /\ Called

\* lock_noderef through the handle of a deleted node, its page resident
StaleGet ==
    /\ Bounded
    /\ \E ref \in db.stale :
         /\ res' = [Result("get_node", get_node_code(db.page, ref)) EXCEPT !.key = ref]
         /\ db' = db
    /\ Called

NextStale == StaleAlloc \/ StaleFree \/ StaleGet
SpecStale == InitStale /\ [][NextStale]_vars

\* C34: an operation through the handle of a deleted node, whose slot no new
\* node was given, fails with INVOPER
StaleHandleRefused == res.op = "get_node" => res.code = "INVOPER"

\* ---------------------------------------------------------------------------
\* the page count of the header
\* ---------------------------------------------------------------------------

\* C35: the page count of the header never exceeds the maximum of the file
\* format (cfg.max_pages stands for MAX_FILE_PAGES); when it has reached it,
\* an alloc_node leaves it unchanged, and fails with INVOPER if its pool has
\* no page yet, so that it needs a new one
PageCountBounded ==
    /\ db.hdr.pagecount <= db.cfg.max_pages
    /\ db.hdr.pagecount = db.cfg.max_pages =>
         \A pool \in DOMAIN db.hdr.page_pool :
            LET r == do_alloc_node(db, -1, pool) IN
            /\ r.db.hdr.pagecount = db.hdr.pagecount
            /\ db.hdr.page_pool[pool] = 0 => r.db.err = "INVOPER"

\* a create was refused with INVOPER on a file that has all its pages
FullFileRefused ==
    /\ res.op \in {"create_key", "create_int32"}
    /\ res.code = "INVOPER"
    /\ db.hdr.pagecount = db.cfg.max_pages

\* ---------------------------------------------------------------------------
\* the mutex of the threads library (sync.c, the user space semaphore of the
\* Windows build)
\* ---------------------------------------------------------------------------
\* db.mlock is mtx->_lock and db.count mtx->_count; db.sema_count, db.waiters
\* and db.event are the wait semaphore: its count, its waiters and its
\* auto-reset event; db.cur[t] is the local cur of mtx_unlock. pc[t] is the
\* statement thread t is at; a thread at "locked" holds the mutex.

\* calls of mtx_lock and mtx_trylock each thread makes
MtxCalls == 2

InitMtx ==
    /\ db = [mlock |-> 0, count |-> 0, sema_count |-> 0, waiters |-> 0, event |-> FALSE,
             cur |-> [t \in Threads |-> 0], calls |-> [t \in Threads |-> 0]]
    /\ env = [steps |-> MtxCalls]
    /\ res = Result("open", "OK")
    /\ committed = {}
    /\ cursor = NoCursor
    /\ steps = 0
    /\ lock = 0
    /\ pc = [t \in Threads |-> "idle"]
    /\ upgraded = {}
    /\ look = [t \in Threads |-> NoLook]

mtx == <<res, committed, cursor, steps, env, lock, upgraded, look>>

MtxGoto(t, label) == pc' = [pc EXCEPT ![t] = label]

\* a thread calls mtx_lock or mtx_trylock
MtxCall(t) ==
    /\ pc[t] = "idle"
    /\ db.calls[t] < env.steps
    /\ \E f \in {"mtx_lock", "mtx_trylock"} : MtxGoto(t, f)
    /\ db' = [db EXCEPT !.calls[t] = @ + 1]
    /\ UNCHANGED mtx

\* mtx_trylock: atomic_exchange(&mtx->_lock, 1)
mtx_trylock(t) ==
    /\ pc[t] = "mtx_trylock"
    /\ db' = [db EXCEPT !.mlock = 1]
    /\ MtxGoto(t, IF db.mlock = 0 THEN "locked" ELSE "idle")
    /\ UNCHANGED mtx

\* a mtx_lock that takes the mutex whatever the exchange returned
mtx_lock_unfenced(t) ==
    /\ pc[t] = "mtx_lock"
    /\ db' = [db EXCEPT !.mlock = 1]
    /\ MtxGoto(t, "locked")
    /\ UNCHANGED mtx

\* mtx_lock: the exchange that heads its loop
mtx_lock(t) ==
    /\ pc[t] = "mtx_lock"
    /\ db' = [db EXCEPT !.mlock = 1]
    /\ MtxGoto(t, IF db.mlock = 0 THEN "locked" ELSE "mtx_lock_count")
    /\ UNCHANGED mtx

\* mtx_lock: atomic_fetch_add(&mtx->_count, -1) after a failed exchange
mtx_lock_count(t) ==
    /\ pc[t] = "mtx_lock_count"
    /\ db' = [db EXCEPT !.count = @ - 1]
    /\ MtxGoto(t, IF db.count <= 0 THEN "usem_acquire" ELSE "mtx_lock")
    /\ UNCHANGED mtx

\* _usem_acquire, in its critical section: the count taken, or the thread
\* registered as a waiter; and again after its wait
usem_acquire(t) ==
    /\ pc[t] \in {"usem_acquire", "usem_woken"}
    /\ LET waiters == IF pc[t] = "usem_woken" THEN db.waiters - 1 ELSE db.waiters IN
       IF db.sema_count = 0
       THEN db' = [db EXCEPT !.waiters = waiters + 1] /\ MtxGoto(t, "usem_wait")
       ELSE db' = [db EXCEPT !.waiters = waiters, !.sema_count = @ - 1] /\ MtxGoto(t, "mtx_lock")
    /\ UNCHANGED mtx

\* a wait that also returns while the semaphore has a count left (not what the
\* code does)
usem_wait_counted(t) ==
    /\ pc[t] = "usem_wait"
    /\ db.event \/ db.sema_count > 0
    /\ db' = [db EXCEPT !.event = FALSE]
    /\ MtxGoto(t, "usem_woken")
    /\ UNCHANGED mtx

\* _usem_acquire: WaitForSingleObjectEx returns when the event is set, and
\* resets it
usem_wait(t) ==
    /\ pc[t] = "usem_wait"
    /\ db.event
    /\ db' = [db EXCEPT !.event = FALSE]
    /\ MtxGoto(t, "usem_woken")
    /\ UNCHANGED mtx

\* mtx_unlock: atomic_exchange(&mtx->_lock, 0) by the thread that holds it
mtx_unlock(t) ==
    /\ pc[t] = "locked"
    /\ db' = [db EXCEPT !.mlock = 0]
    /\ MtxGoto(t, "unlock_load")
    /\ UNCHANGED mtx

\* mtx_unlock: cur = atomic_load(&mtx->_count)
unlock_load(t) ==
    /\ pc[t] = "unlock_load"
    /\ db' = [db EXCEPT !.cur[t] = db.count]
    /\ MtxGoto(t, "unlock_cas")
    /\ UNCHANGED mtx

\* mtx_unlock: the loop while (cur <= 0) around the compare and exchange
unlock_cas(t) ==
    /\ pc[t] = "unlock_cas"
    /\ IF db.cur[t] > 0
       THEN db' = [db EXCEPT !.cur[t] = 0] /\ MtxGoto(t, "idle")
       ELSE IF db.count = db.cur[t]
       THEN /\ db' = [db EXCEPT !.count = @ + 1, !.cur[t] = 0]
            /\ MtxGoto(t, IF db.cur[t] < 0 THEN "usem_release" ELSE "idle")
       ELSE db' = [db EXCEPT !.cur[t] = db.count] /\ UNCHANGED pc
    /\ UNCHANGED mtx

\* _usem_release, in its critical section
usem_release(t) ==
    /\ pc[t] = "usem_release"
    /\ db' = [db EXCEPT !.sema_count = @ + 1,
                        !.event = IF db.waiters > 0 THEN TRUE ELSE @]
    /\ MtxGoto(t, "idle")
    /\ UNCHANGED mtx

\* the steps of a call once it is made
MtxStep(t) ==
    \/ mtx_trylock(t) \/ mtx_lock(t) \/ mtx_lock_count(t) \/ usem_acquire(t) \/ usem_wait(t)
    \/ mtx_unlock(t) \/ unlock_load(t) \/ unlock_cas(t) \/ usem_release(t)

NextMtx == \E t \in Threads : MtxCall(t) \/ MtxStep(t)
SpecMtx == InitMtx /\ [][NextMtx]_vars

\* Fair scheduling: a thread that can take a step of its call takes it. No
\* new call is promised.
SpecMtxFair == SpecMtx /\ \A t \in Threads : WF_vars(MtxStep(t))

\* C36: no thread stays blocked in mtx_lock for ever while the mutex is free
NoThreadBlockedOnFreeMutex ==
    \A t \in Threads : []<>~(pc[t] = "usem_wait" /\ db.mlock = 0)

\* C37: at most one thread is between a successful mtx_lock or mtx_trylock
\* and its mtx_unlock
MutualExclusion == Cardinality({t \in Threads : pc[t] = "locked"}) <= 1

\* a thread holds the mutex while another one waits on its semaphore
HeldWhileWaited == \E t, u \in Threads : pc[t] = "locked" /\ pc[u] = "usem_wait"

\* ---------------------------------------------------------------------------
\* the producer/consumer test (test.c) on the mutex and the condition
\* variables of sync.c
\* ---------------------------------------------------------------------------
\* Thread 0 is main, thread 1 the producer, the others are consumers.
\* look[t].state is the statement of its function the thread is at, pc[t]
\* where it is in mtx_lock or mtx_unlock of _mtx_queue ("idle": in neither and
\* not holding it, "locked": holding it). db holds the mutex as above, the
\* queue, die, done, the condition variables (sema and max_waiters of _state,
\* and the kernel semaphore ksem), should[t] (should_wait of cnd_wait), the
\* next item of the producer and how often each item was dequeued.

ProdItems == 2
QueueLen == 1

Main == 0
Producer == 1
ProdThreads == {Main} \cup Threads
Consumers == Threads \ {Producer}

NewCnd == [sema |-> 0, max_waiters |-> 1, ksem |-> 0]

At(t, label) == [look EXCEPT ![t].state = label]

InitProd ==
    /\ db = [mlock |-> 0, count |-> 0, sema_count |-> 0, waiters |-> 0, event |-> FALSE,
             cur |-> [t \in ProdThreads |-> 0],
             queue |-> << >>, die |-> 0, done |-> 1, i |-> 1,
             not_empty |-> NewCnd, not_full |-> NewCnd,
             should |-> [t \in ProdThreads |-> FALSE],
             dequeued |-> [n \in 1..ProdItems |-> 0]]
    /\ env = [steps |-> ProdItems]
    /\ res = Result("open", "OK")
    /\ committed = {}
    /\ cursor = NoCursor
    /\ steps = 0
    /\ lock = 0
    /\ pc = [t \in ProdThreads |-> "idle"]
    /\ upgraded = {}
    /\ look = [t \in ProdThreads |->
                 [NoLook EXCEPT !.state = IF t = Main THEN "m_wait"
                                          ELSE IF t = Producer THEN "p_lock" ELSE "c_lock"]]

prod == <<res, committed, cursor, steps, env, lock, upgraded>>

\* the condition variable a thread waits on, and the statement it goes back to
CndOf(t) == IF t = Producer THEN "not_full" ELSE "not_empty"
AfterWait(t) == IF t = Producer THEN "p_enqueue" ELSE "c_dequeue"

\* _cnd_acquire_sema: the state after it
cnd_acquire_sema(c) ==
    [c EXCEPT !.sema = @ - 1,
              !.max_waiters = IF -(c.sema - 1) > @ THEN -(c.sema - 1) ELSE @]

\* cnd_signal: _cnd_release_sema, and ReleaseSemaphore if a thread waits
cnd_signal(c) ==
    IF c.sema < c.max_waiters
    THEN [c EXCEPT !.sema = @ + 1, !.ksem = IF c.sema < 0 THEN @ + 1 ELSE @]
    ELSE c

\* cnd_broadcast
cnd_broadcast(c) ==
    IF c.sema < c.max_waiters
    THEN [c EXCEPT !.sema = c.max_waiters, !.ksem = IF c.sema < 0 THEN @ - c.sema ELSE @]
    ELSE c

\* a call of mtx_lock(&_mtx_queue), made at statement from, returns to statement to
ProdLock(t, from, to) ==
    /\ pc[t] = "idle" /\ look[t].state = from
    /\ MtxGoto(t, "mtx_lock") /\ look' = At(t, to)
    /\ UNCHANGED <<db, prod>>

\* prod_func: queue_tryenqueue under the mutex, cnd_wait if the queue is full
prod_enqueue(t) ==
    /\ pc[t] = "locked" /\ look[t].state = "p_enqueue"
    /\ IF Len(db.queue) < QueueLen
       THEN db' = [db EXCEPT !.queue = Append(@, db.i)] /\ look' = At(t, "p_signal")
       ELSE db' = db /\ look' = At(t, "cw_acquire")
    /\ UNCHANGED <<pc, prod>>

prod_signal(t) ==
    /\ pc[t] = "locked" /\ look[t].state = "p_signal"
    /\ db' = [db EXCEPT !.not_empty = cnd_signal(@)]
    /\ look' = At(t, "p_unlock")
    /\ UNCHANGED <<pc, prod>>

\* prod_func after mtx_unlock: the next item, or done-- with its broadcast
\* (the mutex and the condition variable of done are not modelled)
prod_next(t) ==
    /\ pc[t] = "idle" /\ look[t].state = "p_unlock"
    /\ IF db.i < env.steps
       THEN db' = [db EXCEPT !.i = @ + 1] /\ look' = At(t, "p_lock")
       ELSE db' = [db EXCEPT !.done = @ - 1] /\ look' = At(t, "end")
    /\ UNCHANGED <<pc, prod>>

\* cons_func: queue_trydequeue under the mutex, else the test of die, else cnd_wait
cons_dequeue(t) ==
    /\ pc[t] = "locked" /\ look[t].state = "c_dequeue"
    /\ IF Len(db.queue) > 0
       THEN /\ db' = [db EXCEPT !.queue = Tail(@), !.dequeued[Head(db.queue)] = @ + 1]
            /\ look' = At(t, "c_signal")
       ELSE /\ db' = db
            /\ look' = At(t, IF db.die # 0 THEN "c_exit" ELSE "cw_acquire")
    /\ UNCHANGED <<pc, prod>>

cons_signal(t) ==
    /\ pc[t] = "locked" /\ look[t].state = "c_signal"
    /\ db' = [db EXCEPT !.not_full = cnd_signal(@)]
    /\ look' = At(t, "c_unlock")
    /\ UNCHANGED <<pc, prod>>

\* cons_func leaves its loop after mtx_unlock
cons_exit(t) ==
    /\ pc[t] = "idle" /\ look[t].state = "c_exit"
    /\ look' = At(t, "end")
    /\ UNCHANGED <<db, pc, prod>>

\* cnd_wait: _cnd_acquire_sema, before its mtx_unlock
cnd_wait(t) ==
    /\ pc[t] = "locked" /\ look[t].state = "cw_acquire"
    /\ db' = [db EXCEPT ![CndOf(t)] = cnd_acquire_sema(@),
                        !.should[t] = cnd_acquire_sema(db[CndOf(t)]).sema < 0]
    /\ look' = At(t, "cw_unlock")
    /\ UNCHANGED <<pc, prod>>

\* cnd_wait after its mtx_unlock: the wait on the kernel semaphore if
\* should_wait, then its mtx_lock
cnd_wait_resume(t) ==
    /\ pc[t] = "idle" /\ look[t].state = "cw_unlock"
    /\ db.should[t] => db[CndOf(t)].ksem > 0
    /\ db' = [db EXCEPT ![CndOf(t)].ksem = IF db.should[t] THEN @ - 1 ELSE @,
                        !.should[t] = FALSE]
    /\ MtxGoto(t, "mtx_lock") /\ look' = At(t, AfterWait(t))
    /\ UNCHANGED prod

\* main: done has reached 0 (its wait for it is not modelled); it locks,
\* sets die, broadcasts and unlocks
main_die(t) ==
    \/ /\ pc[t] = "idle" /\ look[t].state = "m_wait"
       /\ db.done = 0
       /\ MtxGoto(t, "mtx_lock") /\ look' = At(t, "m_die")
       /\ UNCHANGED <<db, prod>>
    \/ /\ pc[t] = "locked" /\ look[t].state = "m_die"
       /\ db' = [db EXCEPT !.die = 1, !.not_empty = cnd_broadcast(@)]
       /\ look' = At(t, "m_exit")
       /\ UNCHANGED <<pc, prod>>
    \/ /\ pc[t] = "idle" /\ look[t].state = "m_exit"
       /\ look' = At(t, "end")
       /\ UNCHANGED <<db, pc, prod>>

\* the statements at which the thread calls mtx_unlock(&_mtx_queue)
UnlockAt == {"cw_unlock", "p_unlock", "c_unlock", "c_exit", "m_exit"}

\* the steps of mtx_lock and mtx_unlock on _mtx_queue
ProdMtx(t) ==
    \/ mtx_lock(t) \/ mtx_lock_count(t) \/ usem_acquire(t) \/ usem_wait(t)
    \/ (mtx_unlock(t) /\ look[t].state \in UnlockAt)
    \/ unlock_load(t) \/ unlock_cas(t) \/ usem_release(t)

ProdStep(t) ==
    \/ ProdMtx(t)
    \/ ProdLock(t, "p_lock", "p_enqueue") \/ ProdLock(t, "c_lock", "c_dequeue")
    \/ ProdLock(t, "c_unlock", "c_dequeue")
    \/ prod_enqueue(t) \/ prod_signal(t) \/ prod_next(t)
    \/ cons_dequeue(t) \/ cons_signal(t) \/ cons_exit(t)
    \/ cnd_wait(t) \/ cnd_wait_resume(t) \/ main_die(t)

NextProd == \E t \in ProdThreads : ProdStep(t)
SpecProd == InitProd /\ [][NextProd]_vars

\* Fair scheduling: a thread that can take a step takes it
SpecProdFair == SpecProd /\ \A t \in ProdThreads : WF_vars(ProdStep(t))

\* C38: every item produced is dequeued exactly once, and all threads
\* terminate (a thread in cnd_wait is woken by a later signal or broadcast)
ProducedConsumedOnce ==
    /\ [](\A n \in 1..ProdItems : db.dequeued[n] <= 1)
    /\ <>(/\ \A t \in ProdThreads : look[t].state = "end"
          /\ \A n \in 1..ProdItems : db.dequeued[n] = 1)

\* ---------------------------------------------------------------------------
\* call_once
\* ---------------------------------------------------------------------------
\* db.flag is the once_flag; db.entered and db.completed count the runs of the
\* function begun and finished; db.calls[t] the calls thread t has made

OnceCalls == 2

InitOnce ==
    /\ db = [flag |-> 0, entered |-> 0, completed |-> 0, calls |-> [t \in Threads |-> 0]]
    /\ env = [steps |-> OnceCalls]
    /\ res = Result("open", "OK")
    /\ committed = {}
    /\ cursor = NoCursor
    /\ steps = 0
    /\ lock = 0
    /\ pc = [t \in Threads |-> "idle"]
    /\ upgraded = {}
    /\ look = [t \in Threads |-> NoLook]

\* a thread calls call_once on the flag
OnceCall(t) ==
    /\ pc[t] = "idle"
    /\ db.calls[t] < env.steps
    /\ db' = [db EXCEPT !.calls[t] = @ + 1]
    /\ MtxGoto(t, "once_load")
    /\ UNCHANGED mtx

\* call_once: _locked_load(_flag); the call returns if the flag is set
once_load(t) ==
    /\ pc[t] = "once_load"
    /\ MtxGoto(t, IF db.flag = 0 THEN "once_exchange" ELSE "idle")
    /\ UNCHANGED <<db, mtx>>

\* call_once: _locked_exchange(_flag, 1); the thread that read 0 calls the
\* function, the others return
once_exchange(t) ==
    /\ pc[t] = "once_exchange"
    /\ db' = [db EXCEPT !.flag = 1, !.entered = IF db.flag = 0 THEN @ + 1 ELSE @]
    /\ MtxGoto(t, IF db.flag = 0 THEN "once_func" ELSE "idle")
    /\ UNCHANGED mtx

\* the function returns, and call_once with it
once_func(t) ==
    /\ pc[t] = "once_func"
    /\ db' = [db EXCEPT !.completed = @ + 1]
    /\ MtxGoto(t, "idle")
    /\ UNCHANGED mtx

NextOnce == \E t \in Threads : OnceCall(t) \/ once_load(t) \/ once_exchange(t) \/ once_func(t)
SpecOnce == InitOnce /\ [][NextOnce]_vars

\* the function is run once at most
OnceAtMost == db.entered <= 1

\* C39: for concurrent calls of call_once on one flag the function runs
\* exactly once, and no call returns before that run has completed
CallOnceCompleted ==
    [][\A t \in Threads : (pc[t] # "idle" /\ pc'[t] = "idle") =>
           db'.entered = 1 /\ db'.completed = 1]_vars

=============================================================================
